---- MODULE Spec2Model ----
(***************************************************************************)
(* A model of the TablEdit (.tef) binary decoder of tef_parser/reader.py:  *)
(* the header decoder (TEFReader.read_header, _read_v2_header), the v3     *)
(* component decoder (parse_note_events, find_component_offset), the v2    *)
(* component decoder (parse_note_events_v2), the dispatch of parse, the    *)
(* reading list (parse_reading_list), the string scan (find_strings), the  *)
(* instrument scan (parse_instruments) and the methods of TEFNoteEvent     *)
(* (is_melody, decode_string_fret, get_pitch).                             *)
(*                                                                         *)
(* The file bytes are the environment.  The header decoder and the scans   *)
(* read `data`, the bytes of the file by offset (bytes not listed are      *)
(* 0x00); the component decoders read one record per loop iteration, and   *)
(* the bytes of that record are the input of the iteration.  A note event  *)
(* list is kept as its length and its last element; the lists of the scans *)
(* are kept whole in `results`.                                            *)
(***************************************************************************)
EXTENDS Integers, Sequences, FiniteSets, TLC

VARIABLES
    pc,                   \* position of the decoder
    data,                 \* the bytes of self.data, by offset
    header,               \* the TEFHeader read_header returned
    data_len,             \* len(self.data)
    instruments,          \* num_strings of parse_instruments(), in file order
    offset,               \* the loop's offset; parse_reading_list: reading_list_offset
    consecutive_invalid,  \* v3 loop counter
    m_data,               \* v2 overflow carry
    m_index,              \* v2 last measure
    iter,                 \* v2: iterations done; parse_instruments: pattern searched
    record,               \* the record read by the last iteration
    locals,               \* location, cumulative_string, measure, position_in_measure
    emitted,              \* whether the last iteration appended an event
    events_len,           \* len(events)
    last_event,           \* events[-1]
    track_last,           \* per track: (measure, position_in_measure) of its last note
    prev_on_track,        \* the same pair of the previous note on last_event's track
    scan_i,               \* the scans: the loop variable i (idx in parse_instruments)
    results,              \* the scans: the list being built (strings, entries, instruments)
    outcome               \* how the call ended: a return or an exception

vars == << pc, data, header, data_len, instruments, offset, consecutive_invalid,
           m_data, m_index, iter, record, locals, emitted, events_len,
           last_event, track_last, prev_on_track, scan_i, results, outcome >>

hdrVars == << data, header >>
loopVars == << offset, consecutive_invalid, m_data, m_index, iter, record, locals,
               emitted, events_len, last_event, track_last, prev_on_track >>
scanVars == << scan_i, results >>

\* the call is under way, has returned its value, or has raised `error`
Running == [ kind |-> "running", error |-> "" ]
Returned == [ kind |-> "returned", error |-> "" ]
Raised(error) == [ kind |-> "raised", error |-> error ]

\* a decoder loop that left its loop returns the list it built
EndOf(next_pc) == IF next_pc = "done" THEN Returned ELSE Running

(***************************************************************************)
(* Bytes and integer helpers                                               *)
(***************************************************************************)
Byte == 0..255

RECURSIVE BitAnd(_, _)
BitAnd(a, b) ==
    IF a = 0 \/ b = 0 THEN 0
    ELSE (a % 2) * (b % 2) + 2 * BitAnd(a \div 2, b \div 2)

\* self.data[k] of a file given by the bytes that are not 0x00
ByteAt(d, k) == IF k \in DOMAIN d THEN d[k] ELSE 0

ShiftRight(a, n) == a \div (2 ^ n)

\* struct.unpack('<H', b)[0]
U16LE(b0, b1) == b0 + 256 * b1

\* struct.unpack('<I', b)[0]
U32LE(b0, b1, b2, b3) == b0 + 256 * b1 + 65536 * b2 + 16777216 * b3

RECURSIVE SumSeq(_)
SumSeq(s) == IF s = << >> THEN 0 ELSE Head(s) + SumSeq(Tail(s))

(***************************************************************************)
(* Characters: chr() on the printable ASCII range                          *)
(***************************************************************************)
PrintableChars ==
    << " ", "!", "\"", "#", "$", "%", "&", "'", "(", ")", "*", "+", ",", "-", ".", "/",
       "0", "1", "2", "3", "4", "5", "6", "7", "8", "9", ":", ";", "<", "=", ">", "?",
       "@", "A", "B", "C", "D", "E", "F", "G", "H", "I", "J", "K", "L", "M", "N", "O",
       "P", "Q", "R", "S", "T", "U", "V", "W", "X", "Y", "Z", "[", "\\", "]", "^", "_",
       "GRAVE", "a", "b", "c", "d", "e", "f", "g", "h", "i", "j", "k", "l", "m", "n", "o",
       "p", "q", "r", "s", "t", "u", "v", "w", "x", "y", "z", "{", "|", "}", "~" >>

\* chr(b) for 32 <= b <= 126 (the parser has no literal for chr(96), the grave
\* accent: it is written "GRAVE")
Chr(b) == PrintableChars[b - 31]

DigitChars == << "0", "1", "2", "3", "4", "5", "6", "7", "8", "9" >>

\* str(n) for n >= 0
RECURSIVE DecStr(_)
DecStr(n) ==
    IF n < 10 THEN DigitChars[n + 1]
    ELSE DecStr(n \div 10) \o DigitChars[(n % 10) + 1]

\* f"{n:02d}"
Pad2(n) == IF n < 10 THEN "0" \o DecStr(n) ELSE DecStr(n)

(***************************************************************************)
(* TEFHeader                                                               *)
(***************************************************************************)
NoHeader ==
    [ format_id |-> -1, version_major |-> -1, version_minor |-> -1,
      v2_title |-> << >>, v2_composer |-> << >>, v2_comments |-> << >>,
      v2_measures |-> 0, v2_time_num |-> 4, v2_time_denom |-> 4, v2_tempo |-> 120,
      v2_strings |-> 4, v2_tracks |-> 1,
      v2_component_offset |-> 0, v2_component_count |-> 0 ]

\* the dataclass with its defaults for the v2 fields
TEFHeader(format_id, version_major, version_minor) ==
    [ format_id |-> format_id, version_major |-> version_major,
      version_minor |-> version_minor,
      v2_title |-> << >>, v2_composer |-> << >>, v2_comments |-> << >>,
      v2_measures |-> 0, v2_time_num |-> 4, v2_time_denom |-> 4, v2_tempo |-> 120,
      v2_strings |-> 4, v2_tracks |-> 1,
      v2_component_offset |-> 0, v2_component_count |-> 0 ]

version(h) == DecStr(h.version_major) \o "." \o Pad2(h.version_minor)

\* (mutation) ts_size taken as 256 whatever the time signature
V2TsSize256(h) == 256

\* (mutation) the dialect taken from the format id of the text header
IsV2ByFormatId(h) == h.format_id = 0

is_v2(h) == h.version_major = 2

v2_ts_size(h) ==
    IF h.v2_time_denom = 0 THEN 256
    ELSE (256 * h.v2_time_num) \div h.v2_time_denom

\* the info section is self.data[0:200]
InfoLen == 200

\* (mutation) every search starts at the beginning of the info section
InfoFindFromStart(d, pos) ==
    LET ends == { k \in 0..(InfoLen - 1) : ByteAt(d, k) = 0 }
    IN  IF ends = { } THEN -1 ELSE CHOOSE k \in ends : \A j \in ends : k <= j

\* info.find(b'\x00', pos)
InfoFind(d, pos) ==
    LET ends == { k \in pos..(InfoLen - 1) : ByteAt(d, k) = 0 }
    IN  IF ends = { } THEN -1 ELSE CHOOSE k \in ends : \A j \in ends : k <= j

\* info[pos:end].decode('latin-1'): one character per byte, the character's
\* code point being the byte; a str is kept as the tuple of its code points
InfoSlice(d, pos, end) == [ k \in 1..(end - pos) |-> ByteAt(d, pos + k - 1) ]

\* the loop `for _ in range(3)`: the strings collected before the first
\* search that finds no terminator
InfoStrings(d) ==
    LET end1 == InfoFind(d, 0)
        end2 == InfoFind(d, end1 + 1)
        end3 == InfoFind(d, end2 + 1)
    IN  IF end1 < 0 THEN << >>
        ELSE IF end2 < 0 THEN << InfoSlice(d, 0, end1) >>
        ELSE IF end3 < 0 THEN << InfoSlice(d, 0, end1), InfoSlice(d, end1 + 1, end2) >>
        ELSE << InfoSlice(d, 0, end1), InfoSlice(d, end1 + 1, end2),
                InfoSlice(d, end2 + 1, end3) >>

\* strings[n] if len(strings) > n else ""
InfoField(strings, n) == IF Len(strings) > n THEN strings[n + 1] ELSE << >>

\* _read_v2_header: the info strings and the structured fields at the fixed
\* offsets
read_v2_header(d) ==
    [ format_id |-> 0, version_major |-> 2, version_minor |-> 0,
      v2_title |-> InfoField(InfoStrings(d), 0),
      v2_composer |-> InfoField(InfoStrings(d), 1),
      v2_comments |-> InfoField(InfoStrings(d), 2),
      v2_measures |-> U16LE(d[200], d[201]),
      v2_time_num |-> d[202],
      v2_time_denom |-> d[204],
      v2_tempo |-> U16LE(d[220], d[221]),
      v2_strings |-> d[240],
      v2_tracks |-> d[241] + 1,
      v2_component_offset |-> 258,
      v2_component_count |-> U16LE(d[256], d[257]) ]

\* (mutation) the upper bound taken inclusive: 0x7F counts as text
IsV2FirstByteThrough7F(b) == b >= 32 /\ b <= 127

\* the test of the first byte in read_header
IsV2FirstByte(b) == b >= 32 /\ b < 127

read_header(d) ==
    IF IsV2FirstByte(d[0])
    THEN read_v2_header(d)
    ELSE TEFHeader(U16LE(d[0], d[1]), d[3], d[2])

(***************************************************************************)
(* TEFNoteEvent and the 12-byte / 6-byte records                           *)
(***************************************************************************)
\* (mutation) the event built without the bytes of its record
TEFNoteEventNoRaw(position, track, marker, extra, pitch_byte, raw_data) ==
    [ position |-> position, track |-> track, marker |-> marker,
      extra |-> extra, pitch_byte |-> pitch_byte, raw_data |-> << >> ]

TEFNoteEvent(position, track, marker, extra, pitch_byte, raw_data) ==
    [ position |-> position, track |-> track, marker |-> marker,
      extra |-> extra, pitch_byte |-> pitch_byte, raw_data |-> raw_data ]

NoEvent == TEFNoteEvent(-1, -1, "", -1, -1, << >>)

NoRecord == << >>

NoLocals ==
    [ location |-> -1, cumulative_string |-> -1, measure |-> -1,
      position_in_measure |-> -1 ]

\* byte i (0-indexed, as in the source) of a record
At(rec, i) == rec[i + 1]

(***************************************************************************)
(* parse_note_events: the v3 component decoder                             *)
(***************************************************************************)
NON_NOTE_TYPES ==
    { 51, 53, 54, 55, 56, 57, 61, 117, 120, 125, 126, 182, 183, 189, 190, 253, 254 }

max_invalid == 20

VALUE_PER_STRING == 8

\* (mutation) six strings assumed when no instrument was parsed
TotalStringsOr6(insts) == IF SumSeq(insts) = 0 THEN 6 ELSE SumSeq(insts)

\* total_strings = sum(inst.num_strings ...), 5 when that is 0
total_strings(insts) == IF SumSeq(insts) = 0 THEN 5 ELSE SumSeq(insts)

\* (mutation) 16 units per string instead of 32
ValuePerPosition16(insts) == 16 * total_strings(insts)

VALUE_PER_POSITION(insts) == 32 * total_strings(insts)

\* track_string_counts, [5] when no instrument was parsed
v3_track_string_counts(insts) == IF insts = << >> THEN << 5 >> ELSE insts

lower_bits(component_type) == BitAnd(component_type, 31)

\* (mutation) no component type is skipped as a non-note
IsNonNoteNever(component_type) == FALSE

\* the record is skipped as a known non-note component
IsNonNote(component_type) == component_type \in NON_NOTE_TYPES

\* (mutation) lower bits 0 accepted as a note
IsValidNoteFrom0(component_type) ==
    ~ (lower_bits(component_type) < 0 \/ lower_bits(component_type) > 25)

\* the record passes `lower_bits < 0x01 or lower_bits > 0x19` as a note
IsValidNote(component_type) ==
    ~ (lower_bits(component_type) < 1 \/ lower_bits(component_type) > 25)

NoteFret(component_type) == lower_bits(component_type) - 1

CumulativeString(location, insts) ==
    (location % VALUE_PER_POSITION(insts)) \div VALUE_PER_STRING

Position(location, insts) == location \div VALUE_PER_POSITION(insts)

\* (mutation) the walk with `local_string <= num_strings`
RECURSIVE MapWalkInclusive(_, _, _)
MapWalkInclusive(counts, idx, local_string) ==
    IF idx > Len(counts) THEN << 0, local_string >>
    ELSE IF local_string <= counts[idx] THEN << idx - 1, local_string >>
    ELSE MapWalkInclusive(counts, idx + 1, local_string - counts[idx])

\* the walk over enumerate(track_string_counts): << track_idx, local_string >>;
\* without a break track_idx keeps its initial 0 and local_string what is left
RECURSIVE MapWalk(_, _, _)
MapWalk(counts, idx, local_string) ==
    IF idx > Len(counts) THEN << 0, local_string >>
    ELSE IF local_string < counts[idx] THEN << idx - 1, local_string >>
    ELSE MapWalk(counts, idx + 1, local_string - counts[idx])

MapString(counts, cumulative_string) == MapWalk(counts, 1, cumulative_string)

Marker(marker_byte) ==
    IF marker_byte = 73 THEN "I"
    ELSE IF marker_byte = 70 THEN "F"
    ELSE IF marker_byte = 76 THEN "L"
    ELSE IF marker_byte = 67 THEN "C"
    ELSE IF marker_byte = 64 THEN "@"
    ELSE IF marker_byte = 65 THEN "A"
    ELSE IF 32 <= marker_byte /\ marker_byte <= 126 THEN Chr(marker_byte)
    ELSE "F"

\* `while offset + 12 <= len(self.data)`
V3HasRecord(off, len) == off + 12 <= len

\* (mutation) the break taken one record late
V3InvalidRunEndsLate(count) == count > max_invalid

\* `if consecutive_invalid >= max_invalid: break`
V3InvalidRunEnds(count) == count >= max_invalid

\* the event a note record appends
V3Event(rec, insts) ==
    LET location == U32LE(At(rec, 0), At(rec, 1), At(rec, 2), At(rec, 3))
        ts == MapString(v3_track_string_counts(insts),
                        CumulativeString(location, insts))
    IN  TEFNoteEvent(Position(location, insts), ts[1], Marker(At(rec, 5)),
                     ts[2] + 1, NoteFret(At(rec, 4)), rec)

V3Locals(rec, insts) ==
    LET location == U32LE(At(rec, 0), At(rec, 1), At(rec, 2), At(rec, 3))
    IN  [ location |-> location,
          cumulative_string |-> CumulativeString(location, insts),
          measure |-> -1, position_in_measure |-> -1 ]

\* lines 767-795: the explicit start_offset, counters reset, first loop test
V3Start(start_offset) ==
    /\ pc = "parse_note_events"
    /\ start_offset <= data_len
    /\ offset' = start_offset
    /\ consecutive_invalid' = 0
    /\ events_len' = 0
    /\ last_event' = NoEvent
    /\ pc' = IF V3HasRecord(start_offset, data_len) THEN "v3_loop" ELSE "done"
    /\ outcome' = EndOf(pc')
    /\ UNCHANGED << hdrVars, data_len, instruments, m_data, m_index, iter, record,
                    locals, emitted, track_last, prev_on_track, scanVars >>

\* lines 797-870: one iteration of the while loop on the record at `offset`,
\* up to and including the next evaluation of the loop condition
V3Record(rec) ==
    /\ pc = "v3_loop"
    /\ V3HasRecord(offset, data_len)
    /\ record' = rec
    /\ offset' = offset + 12
    /\ IF IsNonNote(At(rec, 4))
       THEN /\ UNCHANGED << consecutive_invalid, events_len, last_event, locals >>
            /\ emitted' = FALSE
            /\ pc' = IF V3HasRecord(offset', data_len) THEN "v3_loop" ELSE "done"
       ELSE IF ~ IsValidNote(At(rec, 4))
       THEN /\ consecutive_invalid' = consecutive_invalid + 1
            /\ UNCHANGED << events_len, last_event, locals >>
            /\ emitted' = FALSE
            /\ pc' = IF V3InvalidRunEnds(consecutive_invalid') THEN "done"
                     ELSE IF V3HasRecord(offset', data_len) THEN "v3_loop"
                     ELSE "done"
       ELSE /\ consecutive_invalid' = 0
            /\ locals' = V3Locals(rec, instruments)
            /\ last_event' = V3Event(rec, instruments)
            /\ events_len' = events_len + 1
            /\ emitted' = TRUE
            /\ pc' = IF V3HasRecord(offset', data_len) THEN "v3_loop" ELSE "done"
    /\ outcome' = EndOf(pc')
    /\ UNCHANGED << hdrVars, data_len, instruments, m_data, m_index, iter,
                    track_last, prev_on_track, scanVars >>

\* the loop body on whichever record the file holds at `offset`
V3Loop(records) == pc = "v3_loop" /\ \E rec \in records : V3Record(rec)

(***************************************************************************)
(* parse_note_events_v2: the v2 component decoder                          *)
(***************************************************************************)
POSITIONS_PER_MEASURE == 16

\* track_string_counts, [num_strings] when no instrument was parsed
v2_track_string_counts(insts, num_strings) ==
    IF insts = << >> THEN << num_strings >> ELSE insts

\* (rec[0] & 0xff) + (256 * (m_data + (rec[1] & 0xff)))
V2Location(rec, carry) ==
    BitAnd(At(rec, 0), 255) + (256 * (carry + BitAnd(At(rec, 1), 255)))

\* (mutation) a record of the measure reached so far taken as an overflow
V2OverflowInclusive(location, ts_size, num_strings, last_measure) ==
    (location \div (ts_size * num_strings)) <= last_measure

\* `if (location // (ts_size * num_strings)) < m_index`
V2Overflow(location, ts_size, num_strings, last_measure) ==
    (location \div (ts_size * num_strings)) < last_measure

\* (mutation) the overflow is never carried
V2NoCarry(rec, carry, ts_size, num_strings, last_measure) == carry

\* (mutation) the carry is 128
V2CarryBy128(rec, carry, ts_size, num_strings, last_measure) ==
    IF (V2Location(rec, carry) \div (ts_size * num_strings)) < last_measure
    THEN carry + 128
    ELSE carry

\* m_data after the overflow check of one record
V2Carry(rec, carry, ts_size, num_strings, last_measure) ==
    IF V2Overflow(V2Location(rec, carry), ts_size, num_strings, last_measure)
    THEN carry + 256
    ELSE carry

V2PositionInMeasure(location, ts_size) == location % ts_size

V2CumulativeString(location, ts_size, num_strings) ==
    (location \div ts_size) % num_strings

V2Measure(location, ts_size, num_strings) == location \div (ts_size * num_strings)

\* `if fret_raw >= 0x01 and fret_raw <= 0x19`
V2IsNote(fret_byte) == BitAnd(fret_byte, 31) >= 1 /\ BitAnd(fret_byte, 31) <= 25

\* fret_raw - 1, plus rec[5] when bit 5 of the fret byte is set
V2Fret(rec) ==
    LET fret_byte == At(rec, 2)
        fret == BitAnd(fret_byte, 31) - 1
    IN  IF BitAnd(ShiftRight(fret_byte, 5), 1) = 1
        THEN fret + BitAnd(At(rec, 5), 255)
        ELSE fret

\* (mutation) the rescaling done for ts_size 256 whatever the time signature
V2AbsPositionFixed256(measure, position_in_measure, ts_size) ==
    measure * POSITIONS_PER_MEASURE
        + ((position_in_measure * POSITIONS_PER_MEASURE) \div 256)

V2AbsPosition(measure, position_in_measure, ts_size) ==
    measure * POSITIONS_PER_MEASURE
        + ((position_in_measure * POSITIONS_PER_MEASURE) \div ts_size)

\* the for loop goes on: iterations left and `offset + 6 > len(self.data)` false
V2HasRecord(n, count, off, len) == n < count /\ ~ (off + 6 > len)

NoPair == << -1, -1 >>

\* lines 890-911: header values, the ts_size / num_strings guard, loop state
V2Start ==
    /\ pc = "parse_note_events_v2"
    /\ events_len' = 0
    /\ last_event' = NoEvent
    /\ IF v2_ts_size(header) = 0 \/ header.v2_strings = 0
       THEN /\ pc' = "done"
            /\ UNCHANGED << offset, m_data, m_index, iter, track_last >>
       ELSE /\ m_data' = 0
            /\ m_index' = 0
            /\ iter' = 0
            /\ offset' = header.v2_component_offset
            /\ track_last' =
                 [ t \in 1..Len(v2_track_string_counts(instruments, header.v2_strings))
                     |-> NoPair ]
            /\ pc' = IF V2HasRecord(0, header.v2_component_count,
                                    header.v2_component_offset, data_len)
                     THEN "v2_loop" ELSE "done"
    /\ outcome' = EndOf(pc')
    /\ UNCHANGED << hdrVars, data_len, instruments, consecutive_invalid, record,
                    locals, emitted, prev_on_track, scanVars >>

\* lines 912-969: one iteration of the for loop on the record at `offset`,
\* up to and including the next test of the loop
V2Record(rec) ==
    /\ pc = "v2_loop"
    /\ V2HasRecord(iter, header.v2_component_count, offset, data_len)
    /\ LET ts_size == v2_ts_size(header)
           num_strings == header.v2_strings
           counts == v2_track_string_counts(instruments, num_strings)
           carry == V2Carry(rec, m_data, ts_size, num_strings, m_index)
           location == V2Location(rec, carry)
           position_in_measure == V2PositionInMeasure(location, ts_size)
           cumulative_string == V2CumulativeString(location, ts_size, num_strings)
           measure == V2Measure(location, ts_size, num_strings)
           ts == MapString(counts, cumulative_string)
       IN  /\ m_data' = carry
           /\ m_index' = measure
           /\ locals' = [ location |-> location,
                          cumulative_string |-> cumulative_string,
                          measure |-> measure,
                          position_in_measure |-> position_in_measure ]
           /\ IF V2IsNote(At(rec, 2))
              THEN /\ last_event' =
                        TEFNoteEvent(V2AbsPosition(measure, position_in_measure, ts_size),
                                     ts[1], "F", ts[2] + 1, V2Fret(rec), rec)
                   /\ events_len' = events_len + 1
                   /\ emitted' = TRUE
                   /\ prev_on_track' = track_last[ts[1] + 1]
                   /\ track_last' =
                        [ track_last EXCEPT ![ts[1] + 1] = << measure, position_in_measure >> ]
              ELSE /\ emitted' = FALSE
                   /\ UNCHANGED << last_event, events_len, prev_on_track, track_last >>
    /\ record' = rec
    /\ offset' = offset + 6
    /\ iter' = iter + 1
    /\ pc' = IF V2HasRecord(iter', header.v2_component_count, offset', data_len)
             THEN "v2_loop" ELSE "done"
    /\ outcome' = EndOf(pc')
    /\ UNCHANGED << hdrVars, data_len, instruments, consecutive_invalid, scanVars >>

\* the loop body on whichever record the file holds at `offset`
V2Loop(records) == pc = "v2_loop" /\ \E rec \in records : V2Record(rec)

(***************************************************************************)
(* read_header as a step                                                   *)
(***************************************************************************)
ReadHeader ==
    /\ pc = "read_header"
    /\ header' = read_header(data)
    /\ pc' = "header_done"
    /\ outcome' = Returned
    /\ UNCHANGED << data, data_len, instruments, loopVars, scanVars >>

(***************************************************************************)
(* Inputs                                                                  *)
(***************************************************************************)
\* bounds of the model
MaxTracks == 2          \* instruments in a file
MaxStreamRecords == 22  \* 12-byte records in a v3 stream
MaxV2Count == 3         \* component_count of a v2 stream

\* the default_strings of the instrument_patterns table
DefaultStrings == { 4, 5, 6 }

RECURSIVE SeqsUpTo(_, _)
SeqsUpTo(S, n) ==
    IF n = 0 THEN { << >> }
    ELSE LET shorter == SeqsUpTo(S, n - 1)
         IN  shorter \cup { Append(q, x) : q \in { r \in shorter : Len(r) = n - 1 }, x \in S }

\* every list of num_strings parse_instruments can return, up to MaxTracks
InstrumentLists == SeqsUpTo(DefaultStrings, MaxTracks)

LoopInit ==
    /\ offset = 0
    /\ consecutive_invalid = 0
    /\ m_data = 0
    /\ m_index = 0
    /\ iter = 0
    /\ record = NoRecord
    /\ locals = NoLocals
    /\ emitted = FALSE
    /\ events_len = 0
    /\ last_event = NoEvent
    /\ track_last = << >>
    /\ prev_on_track = NoPair
    /\ scan_i = 0
    /\ results = << >>
    /\ outcome = Running

\* ---- the header machine
HeaderOffsets == { 0, 1, 2, 3, 200, 201, 202, 204, 220, 221, 240, 241, 256, 257 }

HeaderData(b0, b1, b2, b3, time_num, time_denom, strings, tracks, count_lo) ==
    [ o \in HeaderOffsets |->
        CASE o = 0 -> b0 [] o = 1 -> b1 [] o = 2 -> b2 [] o = 3 -> b3
          [] o = 202 -> time_num [] o = 204 -> time_denom
          [] o = 240 -> strings [] o = 241 -> tracks
          [] o = 256 -> count_lo
          [] OTHER -> 0 ]

ZeroData == [ o \in HeaderOffsets |-> 0 ]

InitHeader ==
    /\ pc = "read_header"
    /\ \E b0 \in Byte, b1 \in { 0, 1 }, b2 \in { 0, 5, 12, 100 }, b3 \in { 0, 2, 3, 4 },
          time_denom \in { 0, 4 }, count_lo \in { 0, 7 } :
          data = HeaderData(b0, b1, b2, b3, 4, time_denom, 14, 2, count_lo)
    /\ header = NoHeader
    /\ data_len = 258
    /\ instruments = << >>
    /\ LoopInit

NextHeader == ReadHeader

SpecHeader == InitHeader /\ [][NextHeader]_vars

\* ---- the v3 decoder
Rec12(b0, b1, b2, b3, component_type, marker_byte) ==
    << b0, b1, b2, b3, component_type, marker_byte, 0, 0, 0, 0, 0, 0 >>

StartOffsets == { 100, 104 }

\* a stream: a note, a grace note (0x59), a known non-note (0x33), two invalid
\* types (lower bits 0 and 26)
StreamRecords == { Rec12(0, 0, 0, 0, ct, 73) : ct \in { 1, 89, 51, 0, 58 } }

StreamLens ==
    { 100 + 12 * k + tail : k \in { 1, MaxStreamRecords }, tail \in { 0, 11 } }

InitV3 ==
    /\ pc = "parse_note_events"
    /\ data = ZeroData
    /\ header = TEFHeader(16, 3, 5)
    /\ data_len \in StreamLens
    /\ instruments \in { << >>, << 5, 6, 4 >> }
    /\ LoopInit

NextV3 ==
    \/ \E start_offset \in StartOffsets : V3Start(start_offset)
    \/ V3Loop(StreamRecords)

SpecV3 == InitV3 /\ [][NextV3]_vars

\* the loop runs to completion: parse_note_events is sequential code
FairSpecV3 == SpecV3 /\ WF_vars(NextV3)

\* one record, its fields over wide ranges: every component type, every marker
\* byte, location words around the multiples of 8 and of 32 * total_strings
LocationB0 == { 0, 7, 8, 39, 40, 80, 159, 160, 255 }

WideRecords ==
    { Rec12(0, 0, 0, 0, ct, mb) : ct \in Byte, mb \in { 73, 0 } }
      \cup { Rec12(8, 0, 0, 0, ct, mb) : ct \in { 1, 89 }, mb \in Byte }
      \cup { Rec12(b0, b1, b2, b3, 1, 73) :
                b0 \in LocationB0, b1 \in { 0, 1, 255 }, b2 \in { 0, 255 },
                b3 \in { 0, 127 } }

InitV3Rec ==
    /\ pc = "parse_note_events"
    /\ data = ZeroData
    /\ header = TEFHeader(16, 3, 5)
    /\ data_len \in { 100 + 12, 100 + 23 }
    /\ instruments \in InstrumentLists
    /\ LoopInit

NextV3Rec ==
    \/ \E start_offset \in StartOffsets : V3Start(start_offset)
    \/ V3Loop(WideRecords)

SpecV3Rec == InitV3Rec /\ [][NextV3Rec]_vars

\* ---- the v2 decoder
Rec6(r0, r1, r2, r5) == << r0, r1, r2, 0, 0, r5 >>

\* header bytes (time_num, time_denom, total strings) and instruments of a v2 file
V2Configs ==
    { << 4, 4, 5, << >> >>,        \* ts_size 256, one 5-string track by fallback
      << 4, 4, 5, << 5 >> >>,
      << 3, 4, 9, << 5, 4 >> >>,   \* ts_size 192, two tracks
      << 4, 0, 9, << 5, 4 >> >>,   \* time_denom 0: ts_size 256
      << 1, 255, 4, << 4 >> >>,    \* ts_size 1
      << 255, 1, 255, << 6 >> >>,  \* ts_size 65280, more strings than the track has
      << 0, 4, 5, << 5 >> >>,      \* ts_size 0
      << 4, 4, 0, << >> >> }       \* no strings

V2Header(cfg, count) ==
    read_v2_header(HeaderData(84, 0, 0, 0, cfg[1], cfg[2], cfg[3], Len(cfg[4]), count))

StreamRecordsV2 ==
    { Rec6(r0, r1, r2, 0) : r0 \in { 0, 255 }, r1 \in { 0, 1, 255 }, r2 \in { 1, 0 } }

InitV2 ==
    /\ pc = "parse_note_events_v2"
    /\ \E cfg \in V2Configs, count \in 0..MaxV2Count :
          /\ data = HeaderData(84, 0, 0, 0, cfg[1], cfg[2], cfg[3], Len(cfg[4]), count)
          /\ header = V2Header(cfg, count)
          /\ instruments = cfg[4]
    /\ data_len \in { 258 + 6 * MaxV2Count, 258 + 6 + 5 }
    /\ LoopInit

NextV2 ==
    \/ V2Start
    \/ V2Loop(StreamRecordsV2)

SpecV2 == InitV2 /\ [][NextV2]_vars

WideRecordsV2 ==
    { Rec6(r0, r1, r2, r5) :
        r0 \in { 0, 100, 255 }, r1 \in { 0, 5, 255 }, r2 \in Byte, r5 \in { 0, 1, 255 } }

InitV2Rec ==
    /\ pc = "parse_note_events_v2"
    /\ \E cfg \in V2Configs :
          /\ data = HeaderData(84, 0, 0, 0, cfg[1], cfg[2], cfg[3], Len(cfg[4]), 1)
          /\ header = V2Header(cfg, 1)
          /\ instruments = cfg[4]
    /\ data_len \in { 258 + 6, 258 + 5 }
    /\ LoopInit

NextV2Rec ==
    \/ V2Start
    \/ V2Loop(WideRecordsV2)

SpecV2Rec == InitV2Rec /\ [][NextV2Rec]_vars

\* both decoders, record by record
SpecRec == (InitV3Rec \/ InitV2Rec) /\ [][NextV3Rec \/ NextV2Rec]_vars

(***************************************************************************)
(* Properties                                                              *)
(***************************************************************************)
\* the last loop iteration read a 12-byte (v3) or a 6-byte (v2) record
IsV3Record == Len(record) = 12
IsV2Record == Len(record) = 6

\* C1: read_header classifies by the first byte alone.  A first byte in
\* 0x20..0x7E gives the V2 header (major 2, minor 0, format_id 0, version "2.00",
\* is_v2); any other first byte gives format_id = u16_le(0), minor = data[2],
\* major = data[3], so that 10 00 05 03 reads as version "3.05", format 0x0010.
C1_HeaderByFirstByte ==
    pc = "header_done" =>
        IF 32 <= data[0] /\ data[0] < 127
        THEN /\ header.version_major = 2
             /\ header.version_minor = 0
             /\ header.format_id = 0
             /\ version(header) = "2.00"
             /\ is_v2(header)
        ELSE /\ header.format_id = data[0] + 256 * data[1]
             /\ header.version_minor = data[2]
             /\ header.version_major = data[3]
             /\ (data[0] = 16 /\ data[1] = 0 /\ data[2] = 5 /\ data[3] = 3
                    => version(header) = "3.05" /\ header.format_id = 16)

C1_Witness ==
    /\ pc = "header_done"
    /\ data[0] = 16 /\ data[1] = 0 /\ data[2] = 5 /\ data[3] = 3
    /\ version(header) = "3.05"
    /\ ~ is_v2(header)

C2_NonNoteSet ==
    { 51, 53, 54, 55, 56, 57, 61, 117, 120, 125, 126, 182, 183, 189, 190, 253, 254 }

\* C2: a 12-byte record yields a note event iff its component type is outside
\* the non-note set and has 1 <= (type & 0x1F) <= 25; the fret of the event is
\* (type & 0x1F) - 1, hence within 0..24.
C2_NoteIffTypeInRange ==
    IsV3Record =>
        LET ct == record[5]
        IN  /\ emitted <=> (ct \notin C2_NonNoteSet /\ 1 <= ct % 32 /\ ct % 32 <= 25)
            /\ emitted => /\ last_event.pitch_byte = (ct % 32) - 1
                          /\ 0 <= last_event.pitch_byte
                          /\ last_event.pitch_byte <= 24
                          /\ last_event.raw_data = record

C2_Witness ==
    /\ IsV3Record
    /\ emitted
    /\ record[5] = 89
    /\ last_event.pitch_byte = 24

\* the location word of the last v3 record, and N
C3_Location == record[1] + 256 * record[2] + 65536 * record[3] + 16777216 * record[4]
C3_N == IF SumSeq(instruments) = 0 THEN 5 ELSE SumSeq(instruments)

\* C3: every v3 note has position = location div (32 N) and cumulative string
\* = (location mod (32 N)) div 8, with N the sum of the instruments' strings
\* (5 without instruments); re-encoding position * 32 N + 8 * cumulative string
\* gives the location word back up to its low 3 bits (exactly, when they are 0).
C3_LocationRoundTrip ==
    (IsV3Record /\ emitted) =>
        /\ last_event.position = C3_Location \div (32 * C3_N)
        /\ locals.cumulative_string = (C3_Location % (32 * C3_N)) \div 8
        /\ last_event.position * (32 * C3_N) + 8 * locals.cumulative_string
              = C3_Location - (C3_Location % 8)
        /\ (C3_Location % 8 = 0 =>
              last_event.position * (32 * C3_N) + 8 * locals.cumulative_string
                 = C3_Location)

C3_Witness ==
    /\ IsV3Record
    /\ emitted
    /\ instruments = << 5, 6 >>
    /\ last_event.position > 0
    /\ locals.cumulative_string >= 5
    /\ C3_Location % 8 = 7

\* the string counts the last iteration walked
C4_Counts ==
    IF IsV3Record
    THEN (IF instruments = << >> THEN << 5 >> ELSE instruments)
    ELSE (IF instruments = << >> THEN << header.v2_strings >> ELSE instruments)

C4_Before(t) == SumSeq(SubSeq(C4_Counts, 1, t))

\* C4: in both decoders, for a cumulative string c below the sum of the counts,
\* the emitted track t and 1-indexed string s satisfy
\* sum(counts[0..t-1]) + (s - 1) = c and 1 <= s <= counts[t], and t is the first
\* track whose running remainder is below its count.
C4_CumulativeStringMapping ==
    (emitted /\ locals.cumulative_string < SumSeq(C4_Counts)) =>
        LET t == last_event.track
            s == last_event.extra
            c == locals.cumulative_string
        IN  /\ 0 <= t /\ t < Len(C4_Counts)
            /\ C4_Before(t) + (s - 1) = c
            /\ 1 <= s /\ s <= C4_Counts[t + 1]
            /\ \A u \in 0..(t - 1) : c - C4_Before(u) >= C4_Counts[u + 1]

C4_Witness ==
    /\ IsV2Record
    /\ emitted
    /\ instruments = << 5, 4 >>
    /\ locals.cumulative_string = 7
    /\ last_event.track = 1
    /\ last_event.extra = 3

\* C5: every v3 note event has track < number of tracks and
\* 1 <= local string <= track_string_count[track], whatever the location word.
C5_StringWithinTrack ==
    (IsV3Record /\ emitted) =>
        /\ last_event.track < Len(C4_Counts)
        /\ 1 <= last_event.extra
        /\ last_event.extra <= C4_Counts[last_event.track + 1]

\* C6: the v3 walk advances by 12 bytes per record and always stops, at the
\* first of: fewer than 12 bytes left, or the invalid-record count reaching 20;
\* a note resets the count; once stopped nothing more is decoded.
C6_StopCondition ==
    pc \in { "v3_loop", "done" } =>
        /\ consecutive_invalid <= 20
        /\ pc = "done" <=> (consecutive_invalid = 20 \/ offset + 12 > data_len)
        /\ (IsV3Record /\ emitted) => consecutive_invalid = 0

C6_StreamTerminates ==
    /\ [] C6_StopCondition
    /\ [][pc = "v3_loop" => offset' = offset + 12]_vars
    /\ [][pc = "done" => (pc' = "done" /\ events_len' = events_len
                            /\ last_event' = last_event /\ offset' = offset)]_vars
    /\ <>(pc = "done")

C6_Witness ==
    /\ pc = "done"
    /\ consecutive_invalid = 20
    /\ offset + 12 <= data_len
    /\ events_len > 0

C7_Recognized == { "I", "F", "L", "C", "@", "A" }

\* C7: the marker is I, F, L, C, @, A for the bytes 0x49, 0x46, 0x4C, 0x43,
\* 0x40, 0x41; any other printable byte is kept as its character; an
\* unprintable byte becomes Special, which is none of the recognized markers.
C7_MarkerOfByte ==
    (IsV3Record /\ emitted) =>
        LET b == record[6]
            m == last_event.marker
        IN  /\ b = 73 => m = "I"
            /\ b = 70 => m = "F"
            /\ b = 76 => m = "L"
            /\ b = 67 => m = "C"
            /\ b = 64 => m = "@"
            /\ b = 65 => m = "A"
            /\ (32 <= b /\ b <= 126) => m = PrintableChars[b - 31]
            /\ (b < 32 \/ b > 126) => m \notin C7_Recognized

\* C8: every v2 note event has 0 <= fret <= 24, for all r[2] and r[5].
C8_V2FretInRange ==
    (IsV2Record /\ emitted) =>
        (0 <= last_event.pitch_byte /\ last_event.pitch_byte <= 24)

\* ts_size and N as the header bytes give them
C9_TsSize == IF data[204] = 0 THEN 256 ELSE (256 * data[202]) \div data[204]
C9_Measure == locals.location \div (C9_TsSize * data[240])
C9_SubMeasure == ((locals.location % C9_TsSize) * 16) \div C9_TsSize

\* C9: a v2 note has position = measure * 16 + (position_in_measure * 16) div
\* ts_size with position_in_measure = location mod ts_size; the second term is
\* within 0..15, so position div 16 is the decoded measure.
C9_V2PositionRescaled ==
    (IsV2Record /\ emitted) =>
        /\ locals.position_in_measure = locals.location % C9_TsSize
        /\ locals.measure = C9_Measure
        /\ last_event.position = C9_Measure * 16 + C9_SubMeasure
        /\ 0 <= C9_SubMeasure /\ C9_SubMeasure <= 15
        /\ last_event.position \div 16 = C9_Measure

C9_Witness ==
    /\ IsV2Record
    /\ emitted
    /\ C9_TsSize = 192
    /\ m_data > 0
    /\ C9_Measure > 0
    /\ C9_SubMeasure > 0

LexLeq(a, b) == a[1] < b[1] \/ (a[1] = b[1] /\ a[2] <= b[2])

\* C10 as claimed: within one track the pairs (measure, position_in_measure)
\* of the v2 notes are weakly ascending in file order.
C10_TrackPairsAscending ==
    (IsV2Record /\ emitted /\ prev_on_track # NoPair) =>
        LexLeq(prev_on_track, << locals.measure, locals.position_in_measure >>)

\* C10 as amended: the measure of the v2 notes (position div 16) is weakly
\* ascending in file order, over all notes and so within every track; the
\* position within a measure is not ordered.
C10_MeasuresAscending ==
    /\ [][(pc = "v2_loop" /\ events_len > 0 /\ events_len' = events_len + 1)
             => last_event'.position \div 16 >= last_event.position \div 16]_vars
    /\ []((IsV2Record /\ emitted /\ prev_on_track # NoPair)
             => prev_on_track[1] <= last_event.position \div 16)

C10_Witness ==
    /\ IsV2Record
    /\ emitted
    /\ events_len > 1
    /\ prev_on_track # NoPair
    /\ prev_on_track[1] = locals.measure
    /\ prev_on_track[2] > locals.position_in_measure

(***************************************************************************)
(* Error reporting of the decoders                                         *)
(***************************************************************************)
\* the v2 loop was left by `if offset + 6 > len(self.data): break` with
\* records of component_count still to read
V2RanOutOfFile ==
    /\ pc = "done"
    /\ is_v2(header)
    /\ v2_ts_size(header) # 0 /\ header.v2_strings # 0
    /\ iter < header.v2_component_count
    /\ offset + 6 > data_len

\* C11: when the file ends before component_count records were read (v2:
\* fewer than 6 bytes remain), the decoder returns the notes decoded so far
\* together with a Truncated indication; truncation is never silent.
C11_TruncationReported ==
    V2RanOutOfFile => outcome.kind = "returned" /\ outcome.error = "Truncated"

(***************************************************************************)
(* find_component_offset, the default start of parse_note_events, parse    *)
(***************************************************************************)
SetMin(S) == CHOOSE x \in S : \A y \in S : x <= y
SetMax(S) == CHOOSE x \in S : \A y \in S : x >= y

\* self.data[p:p + len(pattern)] == pattern
MatchAt(d, len, pattern, p) ==
    /\ p + Len(pattern) <= len
    /\ \A j \in 1..Len(pattern) : ByteAt(d, p + j - 1) = pattern[j]

\* (mutation) the highest index at which the pattern occurs
FindLast(d, len, pattern, start) ==
    LET hits == { p \in DOMAIN d : p >= start /\ MatchAt(d, len, pattern, p) }
    IN  IF hits = { } THEN -1 ELSE SetMax(hits)

\* self.data.find(pattern, start) for a pattern whose first byte is not 0x00:
\* the lowest index at or after start at which the pattern occurs, or -1
Find(d, len, pattern, start) ==
    LET hits == { p \in DOMAIN d : p >= start /\ MatchAt(d, len, pattern, p) }
    IN  IF hits = { } THEN -1 ELSE SetMin(hits)

\* b'debt'
DEBT == << 100, 101, 98, 116 >>

\* struct.unpack('<I', self.data[debt_pos + 4:debt_pos + 8]) raises struct.error
\* when the slice is shorter than 4 bytes
DebtPointerRaises(d, len) ==
    LET debt_pos == Find(d, len, DEBT, 0)
    IN  debt_pos >= 0 /\ debt_pos + 8 > len

\* (mutation) any pointer inside the file accepted
PointerRejectedOutsideOnly(debt_val, len) == debt_val >= len

\* `if debt_val >= len(self.data) or debt_val < 100`
PointerRejected(debt_val, len) == debt_val >= len \/ debt_val < 100

\* the value find_component_offset returns when the unpack does not raise
find_component_offset(d, len) ==
    LET debt_pos == Find(d, len, DEBT, 0)
        debt_val == U32LE(ByteAt(d, debt_pos + 4), ByteAt(d, debt_pos + 5),
                          ByteAt(d, debt_pos + 6), ByteAt(d, debt_pos + 7))
    IN  IF debt_pos < 0 THEN -1
        ELSE IF PointerRejected(debt_val, len) THEN -1
        ELSE debt_val

\* lines 767-795 with start_offset = -1: the offset comes from the "debt"
\* pointer; without one the empty list is returned
V3Enter ==
    /\ pc = "parse_note_events"
    /\ IF DebtPointerRaises(data, data_len)
       THEN /\ pc' = "raised"
            /\ outcome' = Raised("struct.error")
            /\ UNCHANGED << offset, consecutive_invalid, events_len, last_event >>
       ELSE LET start_offset == find_component_offset(data, data_len)
            IN  /\ events_len' = 0
                /\ last_event' = NoEvent
                /\ IF start_offset < 0
                   THEN /\ pc' = "done"
                        /\ UNCHANGED << offset, consecutive_invalid >>
                   ELSE /\ offset' = start_offset
                        /\ consecutive_invalid' = 0
                        /\ pc' = IF V3HasRecord(start_offset, data_len)
                                 THEN "v3_loop" ELSE "done"
                /\ outcome' = EndOf(pc')
    /\ UNCHANGED << hdrVars, data_len, instruments, m_data, m_index, iter, record,
                    locals, emitted, track_last, prev_on_track, scanVars >>

\* parse: read_header, then _parse_v2 or _parse_v3 by header.is_v2.  The
\* note decoder of the chosen branch runs next; the other parsers of the
\* branch fill fields of TEFFile that the note decoder does not read.
Parse ==
    /\ pc = "parse"
    /\ header' = read_header(data)
    /\ pc' = IF is_v2(header') THEN "parse_note_events_v2" ELSE "parse_note_events"
    /\ UNCHANGED << data, data_len, instruments, loopVars, scanVars, outcome >>

\* the bytes of seq placed at offsets p, p + 1, ...
Place(p, seq) == [ k \in p..(p + Len(seq) - 1) |-> seq[k - p + 1] ]

\* the 4 bytes of struct.pack('<I', v)
U32Bytes(v) ==
    << v % 256, (v \div 256) % 256, (v \div 65536) % 256, (v \div 16777216) % 256 >>

\* ---- parse: header, dispatch, note decoder
MaxParseRecords == 3   \* 12-byte records between offset 100 and the end of a v3 file

\* b'debu': not the marker
DEBU == << 100, 101, 98, 117 >>

\* the bytes of d that lie in a file of len bytes
Clip(d, len) == [ k \in { x \in DOMAIN d : x < len } |-> d[k] ]

\* len(self.data) of the binary-header files: one that ends inside the pointer
\* that follows a marker at offset 56, and two that hold records from offset 100
ParseLens == { 62, 100 + 12 * MaxParseRecords - 12, 100 + 12 * MaxParseRecords }

\* pointer values around 100 and around the end of the file
PointerValues(len) == { 0, 99, 100, 112, len - 12, len - 1, len, len + 1, 65636 }

\* a binary header, a marker (or not) at offset 56 with its pointer, and
\* possibly a second marker at offset 64 pointing at 100
BinaryFiles(len) ==
    { Clip(Place(0, << b0, 0, 5, b3 >>) @@ Place(56, m1 \o U32Bytes(v1)) @@ second, len) :
        b0 \in { 16, 255 }, b3 \in { 0, 2, 3, 4, 255 },
        m1 \in { DEBT, DEBU, << 0, 0, 0, 0 >> },
        v1 \in PointerValues(len),
        second \in { << >>, Place(64, DEBT \o U32Bytes(100)) } }

ParseRecords == { Rec12(0, 0, 0, 0, ct, 73) : ct \in { 1, 51, 0 } }

InitParse ==
    /\ pc = "parse"
    /\ header = NoHeader
    /\ \/ /\ data_len \in ParseLens
          /\ data \in BinaryFiles(data_len)
          /\ instruments = << 5 >>
       \/ /\ data_len \in { 258 + 12, 258 + 11 }
          /\ \E count \in { 0, 2 } : data = HeaderData(84, 0, 0, 0, 4, 4, 5, 0, count)
          /\ instruments \in { << >>, << 5 >> }
    /\ LoopInit

NextParse ==
    \/ Parse
    \/ V3Enter
    \/ V3Loop(ParseRecords)
    \/ V2Start
    \/ V2Loop(StreamRecordsV2)

SpecParse == InitParse /\ [][NextParse]_vars

\* C12: a file that takes the binary header path (first byte outside
\* 0x20..0x7E) and whose major version byte data[3] is neither 2 nor 3 is
\* refused with an UnsupportedVersion error; parse returns no file for it.
C12_UnsupportedVersionRaised ==
    (pc # "parse" /\ ~ IsV2FirstByte(ByteAt(data, 0)) /\ ByteAt(data, 3) \notin { 2, 3 })
        => /\ outcome.kind # "returned"
           /\ pc \in { "done", "raised" } => outcome = Raised("UnsupportedVersion")

\* the four bytes at p are "debt"
C13_DebtAt(p) ==
    /\ p + 4 <= data_len
    /\ ByteAt(data, p) = 100 /\ ByteAt(data, p + 1) = 101
    /\ ByteAt(data, p + 2) = 98 /\ ByteAt(data, p + 3) = 116

\* C13: for a v3 file the component pointer is required: when "debt" does not
\* occur in the file, parsing ends with a terminal CorruptFile error and no
\* parsed file (with an empty note list) is returned.
C13_MissingPointerIsCorrupt ==
    (/\ pc \in { "done", "raised" }
     /\ header.version_major = 3
     /\ \A p \in 0..(data_len - 4) : ~ C13_DebtAt(p))
        => outcome = Raised("CorruptFile")

\* the first occurrence of "debt" and the u32 that follows it
C14_DebtPos ==
    IF \E p \in 0..(data_len - 4) : C13_DebtAt(p)
    THEN CHOOSE p \in 0..(data_len - 4) :
            C13_DebtAt(p) /\ \A q \in 0..(p - 1) : ~ C13_DebtAt(q)
    ELSE -1
C14_Pointer ==
    U32LE(ByteAt(data, C14_DebtPos + 4), ByteAt(data, C14_DebtPos + 5),
          ByteAt(data, C14_DebtPos + 6), ByteAt(data, C14_DebtPos + 7))

\* C14: the v3 decoder reads component records only from the offset
\* p = u32_le(find("debt") + 4), and only when 100 <= p < file_len: every
\* record it decodes lies at p + 12k; when the pointer after the first "debt"
\* is below 100 or at/after the end of the file, no record is decoded and no
\* note event is produced.
C14_RecordsOnlyFromPointer ==
    (header # NoHeader /\ ~ is_v2(header)) =>
        /\ IsV3Record =>
              /\ C14_DebtPos >= 0
              /\ C14_DebtPos + 8 <= data_len
              /\ 100 <= C14_Pointer /\ C14_Pointer < data_len
              /\ offset >= C14_Pointer + 12
              /\ (offset - C14_Pointer) % 12 = 0
              /\ offset <= data_len
        /\ (C14_DebtPos >= 0 /\ (C14_Pointer < 100 \/ C14_Pointer >= data_len)) =>
              /\ record = NoRecord
              /\ events_len = 0
              /\ pc \in { "parse_note_events", "done", "raised" }

\* records were decoded from the pointer of the first of two markers
C14_Witness ==
    /\ pc = "done"
    /\ ~ is_v2(header)
    /\ C14_DebtPos = 56
    /\ ByteAt(data, 64) = 100
    /\ C14_Pointer = 112
    /\ IsV3Record
    /\ events_len = 2
    /\ offset = 136

(***************************************************************************)
(* The v2 header: info strings and fixed offsets                           *)
(***************************************************************************)
\* n copies of the byte b
Fill(b, n) == [ k \in 1..n |-> b ]

\* the info section: the first `terminated` of the three texts each followed
\* by 0x00, the next text without one, then filler bytes up to InfoLen
InfoSection(texts, terminated, filler) ==
    LET t1 == texts[1] \o (IF terminated >= 1 THEN << 0 >> ELSE << >>)
        t2 == IF terminated >= 1
              THEN texts[2] \o (IF terminated >= 2 THEN << 0 >> ELSE << >>)
              ELSE << >>
        t3 == IF terminated >= 2
              THEN texts[3] \o (IF terminated >= 3 THEN << 0 >> ELSE << >>)
              ELSE << >>
        text == t1 \o t2 \o t3
    IN  text \o Fill(filler, InfoLen - Len(text))

\* "Fog" / "T", "" / "E\xe9", "" / "c"
InfoTexts ==
    { << title, composer, comments >> :
        title \in { << 70, 111, 103 >>, << 84 >> },
        composer \in { << >>, << 69, 233 >> },
        comments \in { << >>, << 99 >> } }

\* bytes 200..257: the fields at their offsets, 0x09 in the skipped bytes
V2FieldBytes(measures, time, tempo, strings, tracks, count) ==
    [ o \in 200..257 |->
        CASE o = 200 -> measures % 256 [] o = 201 -> measures \div 256
          [] o = 202 -> time[1] [] o = 204 -> time[2]
          [] o = 220 -> tempo % 256 [] o = 221 -> tempo \div 256
          [] o = 240 -> strings [] o = 241 -> tracks
          [] o = 256 -> count % 256 [] o = 257 -> count \div 256
          [] OTHER -> 9 ]

InitV2Header ==
    /\ pc = "read_header"
    /\ \E texts \in InfoTexts, terminated \in 0..3, filler \in { 0, 120 },
          measures \in { 0, 32, 65535 }, time \in { << 3, 8 >>, << 4, 4 >> },
          tempo \in { 120, 300 }, tracks \in { 0, 2, 255 }, count \in { 0, 456, 65535 } :
          data = Place(0, InfoSection(texts, terminated, filler))
                   @@ V2FieldBytes(measures, time, tempo, 14, tracks, count)
    /\ header = NoHeader
    /\ data_len = 258
    /\ instruments = << >>
    /\ LoopInit

SpecV2Header == InitV2Header /\ [][NextHeader]_vars

\* the first 0x00 at or after `from` within bytes 0..199, or -1
C15_Terminator(from) ==
    IF from >= 0 /\ \E z \in from..199 : data[z] = 0
    THEN CHOOSE z \in from..199 : data[z] = 0 /\ \A j \in from..(z - 1) : data[j] # 0
    ELSE -1

\* the bytes from..(to - 1), or nothing when the terminator `to` is missing
C15_Text(from, to) ==
    IF to < 0 THEN << >> ELSE [ k \in 1..(to - from) |-> data[from + k - 1] ]

\* C15: the v2 header fields are read from fixed offsets: measures =
\* u16_le(200), time_num = u8(202), time_denom = u8(204), tempo = u16_le(220),
\* total strings = u8(240), track_count = u8(241) + 1 (always in 1..256),
\* component_count = u16_le(256), component_offset = 258; title, composer and
\* comments are the first three NUL-terminated strings of bytes 0..199, in
\* that order, and a missing terminator leaves the remaining fields empty.
C15_V2HeaderFields ==
    (pc = "header_done" /\ 32 <= data[0] /\ data[0] < 127) =>
        LET z1 == C15_Terminator(0)
            z2 == IF z1 < 0 THEN -1 ELSE C15_Terminator(z1 + 1)
            z3 == IF z2 < 0 THEN -1 ELSE C15_Terminator(z2 + 1)
        IN  /\ header.v2_measures = data[200] + 256 * data[201]
            /\ header.v2_time_num = data[202]
            /\ header.v2_time_denom = data[204]
            /\ header.v2_tempo = data[220] + 256 * data[221]
            /\ header.v2_strings = data[240]
            /\ header.v2_tracks = data[241] + 1
            /\ header.v2_tracks \in 1..256
            /\ header.v2_component_count = data[256] + 256 * data[257]
            /\ header.v2_component_offset = 258
            /\ header.v2_title = C15_Text(0, z1)
            /\ header.v2_composer = C15_Text(z1 + 1, z2)
            /\ header.v2_comments = C15_Text(z2 + 1, z3)
            /\ (z1 < 0 => header.v2_title = << >>)
            /\ (z2 < 0 => header.v2_composer = << >>)
            /\ (z3 < 0 => header.v2_comments = << >>)

\* title and composer terminated, the comments not: "Fog", "E\xe9", ""
C15_Witness ==
    /\ pc = "header_done"
    /\ header.v2_title = << 70, 111, 103 >>
    /\ header.v2_composer = << 69, 233 >>
    /\ header.v2_comments = << >>
    /\ data[7] = 99 /\ data[199] = 120
    /\ header.v2_tracks = 256
    /\ header.v2_measures = 65535
    /\ header.v2_component_count = 456
    /\ header.v2_tempo = 300

(***************************************************************************)
(* find_reading_list_offset and parse_reading_list                         *)
(***************************************************************************)
EntrySizeMin == 4
EntrySizeMax == 256
EntryCountMax == 100

\* struct.unpack of n bytes sliced at o raises struct.error past the end
ReadRaises(len, o, n) == o + n > len

\* (mutation) only the start of the pointer is required to be in the file
RLShortFile128(len) == len < 128

\* `if len(self.data) < 132`
RLShortFile(len) == len < 132

\* pos_of_reading_list
RLPointer(d) == U32LE(ByteAt(d, 128), ByteAt(d, 129), ByteAt(d, 130), ByteAt(d, 131))

\* the value find_reading_list_offset returns
find_reading_list_offset(d, len) ==
    IF RLShortFile(len) THEN -1
    ELSE IF RLPointer(d) = 0 THEN -1
    ELSE IF RLPointer(d) >= len THEN -1
    ELSE RLPointer(d)

RLEntrySize(d, off) == U16LE(ByteAt(d, off), ByteAt(d, off + 1))
RLEntryCount(d, off) == U16LE(ByteAt(d, off + 2), ByteAt(d, off + 3))

\* (mutation) a list of exactly 100 entries refused
RLHeaderRejectedFrom100(entry_size, entry_count) ==
    entry_size < EntrySizeMin \/ entry_size > EntrySizeMax \/ entry_count >= EntryCountMax

\* `if entry_size < 4 or entry_size > 256 or entry_count > 100`
RLHeaderRejected(entry_size, entry_count) ==
    entry_size < EntrySizeMin \/ entry_size > EntrySizeMax \/ entry_count > EntryCountMax

\* data_start + i * entry_size
RLEntryOffset(d, off, n) == off + 4 + n * RLEntrySize(d, off)

\* (mutation) the break taken only when the slot starts past the end
RLOverrunAtStart(entry_offset, len) == entry_offset > len

\* `if entry_offset + 4 > len(self.data): break`
RLOverrun(entry_offset, len) == entry_offset + 4 > len

TEFReadingListEntry(index, from_measure, to_measure, entry_offset) ==
    [ index |-> index, from_measure |-> from_measure, to_measure |-> to_measure,
      offset |-> entry_offset ]

\* lines 657-676: the pointer, the list header, the sanity checks; `offset`
\* holds reading_list_offset
RLStart ==
    /\ pc = "parse_reading_list"
    /\ results' = << >>
    /\ scan_i' = 0
    /\ IF ~ RLShortFile(data_len) /\ ReadRaises(data_len, 128, 4)
       THEN /\ pc' = "raised"
            /\ outcome' = Raised("struct.error")
            /\ UNCHANGED offset
       ELSE LET off == find_reading_list_offset(data, data_len)
            IN  /\ IF off < 0 \/ off + 4 > data_len
                   THEN pc' = "done" /\ UNCHANGED offset
                   ELSE IF RLHeaderRejected(RLEntrySize(data, off), RLEntryCount(data, off))
                   THEN pc' = "done" /\ UNCHANGED offset
                   ELSE /\ offset' = off
                        /\ pc' = IF RLEntryCount(data, off) > 0 THEN "rl_loop" ELSE "done"
                /\ outcome' = EndOf(pc')
    /\ UNCHANGED << hdrVars, data_len, instruments, consecutive_invalid, m_data,
                    m_index, iter, record, locals, emitted, events_len, last_event,
                    track_last, prev_on_track >>

\* lines 677-694: one iteration of `for i in range(entry_count)`
RLEntry ==
    /\ pc = "rl_loop"
    /\ LET entry_offset == RLEntryOffset(data, offset, scan_i)
           from_measure == U16LE(ByteAt(data, entry_offset), ByteAt(data, entry_offset + 1))
           to_measure == U16LE(ByteAt(data, entry_offset + 2), ByteAt(data, entry_offset + 3))
       IN  IF RLOverrun(entry_offset, data_len)
           THEN /\ pc' = "done"
                /\ outcome' = Returned
                /\ UNCHANGED << scan_i, results >>
           ELSE IF ReadRaises(data_len, entry_offset, 4)
           THEN /\ pc' = "raised"
                /\ outcome' = Raised("struct.error")
                /\ UNCHANGED << scan_i, results >>
           ELSE /\ results' =
                     IF from_measure = 0 /\ to_measure = 0 THEN results
                     ELSE Append(results,
                                 TEFReadingListEntry(scan_i + 1, from_measure, to_measure,
                                                     entry_offset))
                /\ scan_i' = scan_i + 1
                /\ pc' = IF scan_i' < RLEntryCount(data, offset) THEN "rl_loop" ELSE "done"
                /\ outcome' = EndOf(pc')
    /\ UNCHANGED << hdrVars, data_len, instruments, loopVars >>

\* ---- inputs of the reading list machine
MaxSlotsInFile == 101   \* 4-byte slots after a list header at offset 132

\* the 2 bytes of struct.pack('<H', v)
U16Bytes(v) == << v % 256, v \div 256 >>

\* (from, to) stored in slot n: ascending ranges; every other slot empty;
\* a reversed range, a range from 0 and ranges far beyond any measure count
SlotPair(pattern, n) ==
    CASE pattern = "asc" -> << n + 1, n + 2 >>
      [] pattern = "gaps" -> IF n % 2 = 1 THEN << 0, 0 >> ELSE << n + 1, n + 1 >>
      [] OTHER -> IF n = 0 THEN << 5, 2 >> ELSE IF n = 1 THEN << 0, 7 >>
                  ELSE << 300, 65535 >>

\* the first 4 bytes of the slots that start inside a file of len bytes
SlotBytes(len, ptr, entry_size, entry_count, pattern) ==
    IF entry_size < 4 THEN << >>
    ELSE LET starts == { n \in 0..(entry_count - 1) : ptr + 4 + n * entry_size < len }
             offsets == { ptr + 4 + n * entry_size + j : n \in starts, j \in 0..3 }
         IN  [ o \in offsets |->
                 LET n == (o - ptr - 4) \div entry_size
                     j == (o - ptr - 4) % entry_size
                     pair == SlotPair(pattern, n)
                 IN  (U16Bytes(pair[1]) \o U16Bytes(pair[2]))[j + 1] ]

RLFile(len, ptr, entry_size, entry_count, pattern) ==
    Clip(Place(128, U32Bytes(ptr))
           @@ Place(ptr, U16Bytes(entry_size) \o U16Bytes(entry_count))
           @@ SlotBytes(len, ptr, entry_size, entry_count, pattern), len)

RLLens == { 100, 131, 132, 148, 150, 132 + 4 + 4 * MaxSlotsInFile }

RLPointers(len) == { 0, 128, 132, len - 5, len - 4, len - 3, len - 1, len, len + 1, 70000 }

InitReadingList ==
    /\ pc = "parse_reading_list"
    /\ data_len \in RLLens
    /\ \E ptr \in RLPointers(data_len), entry_size \in { 3, 4, 8, 256, 257 },
          entry_count \in { 0, 1, 2, 3, 100, 101 }, pattern \in { "asc", "gaps", "bad" } :
          data = RLFile(data_len, ptr, entry_size, entry_count, pattern)
    /\ header = TEFHeader(16, 3, 5)
    /\ instruments = << >>
    /\ LoopInit

NextReadingList == RLStart \/ RLEntry

SpecReadingList == InitReadingList /\ [][NextReadingList]_vars

\* C16: parse_reading_list returns the empty list, without raising, whenever
\* the pointer u32_le(128) is 0 or is at least file_len - 4 (every pointer at
\* or beyond the end of the file included), and whenever the file is shorter
\* than 132 bytes.
C16_NoListWithoutValidPointer ==
    LET pointer == ByteAt(data, 128) + 256 * ByteAt(data, 129)
                     + 65536 * ByteAt(data, 130) + 16777216 * ByteAt(data, 131)
    IN  (data_len < 132 \/ pointer = 0 \/ pointer >= data_len - 4) =>
            /\ pc # "raised" /\ outcome.kind # "raised"
            /\ results = << >>
            /\ pc = "done" => outcome = Returned

\* the list header sits in the last 4 bytes of the file and is a sane one
C16_Witness ==
    /\ pc = "done"
    /\ RLPointer(data) = data_len - 4
    /\ RLEntrySize(data, RLPointer(data)) = 8
    /\ RLEntryCount(data, RLPointer(data)) = 3
    /\ results = << >>

\* the pointer of the file, and whether it is a valid one: inside a file of
\* at least 132 bytes, with the 4-byte list header inside the file as well
C17_Pointer == RLPointer(data)
C17_ValidPointer ==
    /\ data_len >= 132
    /\ 0 < C17_Pointer /\ C17_Pointer < data_len
    /\ C17_Pointer + 4 <= data_len
C17_Size == ByteAt(data, C17_Pointer) + 256 * ByteAt(data, C17_Pointer + 1)
C17_Count == ByteAt(data, C17_Pointer + 2) + 256 * ByteAt(data, C17_Pointer + 3)
C17_SlotStart(n) == C17_Pointer + 4 + n * C17_Size
C17_From(n) == ByteAt(data, C17_SlotStart(n)) + 256 * ByteAt(data, C17_SlotStart(n) + 1)
C17_To(n) == ByteAt(data, C17_SlotStart(n) + 2) + 256 * ByteAt(data, C17_SlotStart(n) + 3)

\* all entry_size bytes of slot n are in the file
C17_SlotWhole(n) == C17_SlotStart(n) + C17_Size <= data_len
\* the 4 bytes (from, to) of slot n are in the file
C17_SlotReadable(n) == C17_SlotStart(n) + 4 <= data_len

\* the slots before the first one that is not Inside, (0, 0) slots left out
C17_Kept(Inside(_)) ==
    { n \in 0..(C17_Count - 1) :
        /\ \A m \in 0..n : Inside(m)
        /\ ~ (C17_From(n) = 0 /\ C17_To(n) = 0) }

\* the returned list holds the kept slots, one entry each, in slot order
C17_ListIs(kept) ==
    /\ Len(results) = Cardinality(kept)
    /\ Len(results) <= C17_Count /\ C17_Count <= 100
    /\ \A k \in 1..Len(results) :
          LET n == results[k].index - 1
          IN  /\ n \in kept
              /\ results[k].from_measure = C17_From(n)
              /\ results[k].to_measure = C17_To(n)
              /\ results[k].offset = C17_SlotStart(n)
              /\ k > 1 => /\ results[k - 1].index < results[k].index
                          /\ results[k - 1].offset < results[k].offset

C17_SaneHeader == 4 <= C17_Size /\ C17_Size <= 256 /\ C17_Count <= 100

\* C17 as claimed: for a valid pointer nothing is returned unless
\* 4 <= entry_size <= 256 and entry_count <= 100; otherwise the list holds, in
\* slot order, one entry for each slot that lies wholly inside the file
\* (stopping at the first that does not) and is not (0, 0).
C17_EntriesOfWholeSlots ==
    /\ C17_ValidPointer => pc # "raised"
    /\ (pc = "done" /\ C17_ValidPointer) =>
          IF C17_SaneHeader THEN C17_ListIs(C17_Kept(C17_SlotWhole))
          ELSE results = << >>

\* C17 as amended: a slot counts as soon as its first 4 bytes, the (from, to)
\* pair, are inside the file (entry_offset + 4 <= file_len); the rest of the
\* slot may be cut off by the end of the file.  The list has at most
\* entry_count <= 100 entries, with strictly increasing index (= i + 1) and
\* strictly increasing offset.
C17_EntriesOfReadableSlots ==
    /\ C17_ValidPointer => pc # "raised"
    /\ (pc = "done" /\ C17_ValidPointer) =>
          IF C17_SaneHeader THEN C17_ListIs(C17_Kept(C17_SlotReadable))
          ELSE results = << >>

\* two entries returned, the second from a slot that the file cuts short
C17_Witness ==
    /\ pc = "done"
    /\ C17_ValidPointer /\ C17_SaneHeader
    /\ C17_Size = 8
    /\ Len(results) = 2
    /\ results[2].index = 2
    /\ results[2].offset + 4 = data_len
    /\ ~ C17_SlotWhole(1)

\* C18: every entry of a returned reading list satisfies
\* 1 <= from_measure <= to_measure (<= header.measures), whatever bytes the
\* reading-list region holds.  The v3 header read by read_header carries no
\* measure count; the ordering of the pair alone is stated here.
C18_EntryRangesOrdered ==
    \A k \in 1..Len(results) :
        1 <= results[k].from_measure /\ results[k].from_measure <= results[k].to_measure

(***************************************************************************)
(* find_strings: the length-prefixed string scan                           *)
(***************************************************************************)
StringLenMin == 3
StringLenMax == 100

TEFString(string_offset, value, length) ==
    [ offset |-> string_offset, value |-> value, length |-> length ]

\* self.data[a:b] for 0 <= a <= b <= len(self.data)
Slice(d, a, b) == [ k \in 1..(b - a) |-> ByteAt(d, a + k - 1) ]

\* `if candidate and candidate[-1] == 0: candidate = candidate[:-1]`
StripNul(candidate) ==
    IF Len(candidate) > 0 /\ candidate[Len(candidate)] = 0
    THEN SubSeq(candidate, 1, Len(candidate) - 1)
    ELSE candidate

\* 32 <= b < 127 or b in (0,)
FSByteOk(b) == (32 <= b /\ b < 127) \/ b = 0

\* str.rstrip('\x00')
RECURSIVE RStripNul(_)
RStripNul(value) ==
    IF Len(value) > 0 /\ value[Len(value)] = 0
    THEN RStripNul(SubSeq(value, 1, Len(value) - 1))
    ELSE value

\* candidate.decode('ascii') of bytes below 0x7F: the code points are the bytes
DecodeAscii(candidate) == candidate

\* (mutation) digits counted as letters
IsAlnum(c) == (48 <= c /\ c <= 57) \/ (65 <= c /\ c <= 90) \/ (97 <= c /\ c <= 122)

\* str.isalpha() of an ASCII character
IsAlpha(c) == (65 <= c /\ c <= 90) \/ (97 <= c /\ c <= 122)

\* the u16 read at i
FSLength(d, pos) == U16LE(ByteAt(d, pos), ByteAt(d, pos + 1))

\* the value appended at i
FSValue(d, pos) ==
    RStripNul(DecodeAscii(StripNul(Slice(d, pos + 2, pos + 2 + FSLength(d, pos)))))

\* lines 408-419: the tests a string at i passes before it is appended
FSAccepts(d, len, pos) ==
    LET length == FSLength(d, pos)
    IN  /\ StringLenMin <= length /\ length <= StringLenMax
        /\ pos + 2 + length <= len
        /\ LET candidate == StripNul(Slice(d, pos + 2, pos + 2 + length))
           IN  /\ candidate # << >>
               /\ \A k \in 1..Len(candidate) : FSByteOk(candidate[k])
               /\ FSValue(d, pos) # << >>
               /\ \E k \in 1..Len(FSValue(d, pos)) : IsAlpha(FSValue(d, pos)[k])

\* (mutation) the scan resumes inside the accepted string
FSResumeInPayload(pos, length) == pos + length

\* `i += 2 + length`
FSResume(pos, length) == pos + 2 + length

\* `while i < len(self.data) - 2`
FSMore(pos, len) == pos < len - 2

\* lines 403-405: strings = [], i = 0, the first loop test
FSStart ==
    /\ pc = "find_strings"
    /\ results' = << >>
    /\ scan_i' = 0
    /\ pc' = IF FSMore(0, data_len) THEN "fs_loop" ELSE "done"
    /\ outcome' = EndOf(pc')
    /\ UNCHANGED << hdrVars, data_len, instruments, loopVars >>

\* lines 405-424: one iteration of the while loop, up to the next loop test
FSStep ==
    /\ pc = "fs_loop"
    /\ IF FSAccepts(data, data_len, scan_i)
       THEN /\ results' = Append(results, TEFString(scan_i, FSValue(data, scan_i),
                                                    FSLength(data, scan_i)))
            /\ scan_i' = FSResume(scan_i, FSLength(data, scan_i))
       ELSE /\ scan_i' = scan_i + 1
            /\ UNCHANGED results
    /\ pc' = IF FSMore(scan_i', data_len) THEN "fs_loop" ELSE "done"
    /\ outcome' = EndOf(pc')
    /\ UNCHANGED << hdrVars, data_len, instruments, loopVars >>

\* ---- inputs of the string scan
MaxChunks == 3   \* pieces a scanned file is built from

\* "AB\0"; "A\0B\0"; "123"; "A\xc8B"; "\0\0\0"; a prefix whose payload is the
\* prefix of "ABC"; a 5-byte string cut after 2 bytes; single bytes
StringChunks ==
    { << 3, 0, 65, 66, 0 >>, << 4, 0, 65, 0, 66, 0 >>, << 3, 0, 49, 50, 51 >>,
      << 3, 0, 65, 200, 66 >>, << 3, 0, 0, 0, 0 >>, << 3, 0, 3, 0, 65, 66, 67 >>,
      << 5, 0, 65, 66 >>, << 0 >>, << 122 >> }

\* strings of 100 and of 101 letters
LongChunks == { << n, 0 >> \o Fill(97, n) : n \in { StringLenMax, StringLenMax + 1 } }

RECURSIVE Concat(_)
Concat(chunks) == IF chunks = << >> THEN << >> ELSE Head(chunks) \o Concat(Tail(chunks))

ScannedFiles ==
    { Concat(chunks) : chunks \in SeqsUpTo(StringChunks, MaxChunks) }
      \cup { c \o long \o << 0 >> : c \in { << >>, << 3, 0, 65, 66, 0 >> }, long \in LongChunks }

InitStrings ==
    /\ pc = "find_strings"
    /\ \E bytes \in ScannedFiles :
          /\ data = Place(0, bytes)
          /\ data_len = Len(bytes)
    /\ header = NoHeader
    /\ instruments = << >>
    /\ LoopInit

NextStrings == FSStart \/ FSStep

SpecStrings == InitStrings /\ [][NextStrings]_vars

\* find_strings is sequential code: its loop keeps running until it ends
FairSpecStrings == SpecStrings /\ WF_vars(NextStrings)

\* the payload of results[k] with one trailing NUL stripped
C19_Payload(k) ==
    LET o == results[k].offset
        L == results[k].length
        last == data[o + 2 + L - 1]
    IN  [ j \in 1..(IF last = 0 THEN L - 1 ELSE L) |-> data[o + 2 + j - 1] ]

C19_Strings ==
    \A k \in 1..Len(results) :
        LET o == results[k].offset
            L == results[k].length
        IN  /\ L = data[o] + 256 * data[o + 1]
            /\ 3 <= L /\ L <= 100
            /\ o + 2 + L <= data_len
            /\ \A j \in 1..Len(C19_Payload(k)) :
                  \/ (32 <= C19_Payload(k)[j] /\ C19_Payload(k)[j] <= 126)
                  \/ C19_Payload(k)[j] = 0
            /\ \E j \in 1..Len(results[k].value) :
                  \/ (65 <= results[k].value[j] /\ results[k].value[j] <= 90)
                  \/ (97 <= results[k].value[j] /\ results[k].value[j] <= 122)
            /\ Len(results[k].value) <= Len(C19_Payload(k))
            /\ \A j \in 1..Len(results[k].value) : results[k].value[j] = C19_Payload(k)[j]
            /\ k > 1 => o >= results[k - 1].offset + 2 + results[k - 1].length

\* C19: the length-prefixed string scan terminates on every file and returns
\* strings in strictly ascending offset that never overlap: each accepted
\* string has a u16 length L with 3 <= L <= 100 and offset + 2 + L <= file_len,
\* every payload byte (after stripping one trailing NUL) in 0x20..0x7E or 0x00,
\* and a value with at least one letter; after an accept at o the scan resumes
\* at o + 2 + L, after a reject at o + 1, so that consecutive results satisfy
\* next.offset >= prev.offset + 2 + prev.length.
C19_StringScan ==
    /\ [] C19_Strings
    /\ [][pc = "fs_loop" =>
            IF Len(results') > Len(results)
            THEN /\ results'[Len(results')].offset = scan_i
                 /\ scan_i' = scan_i + 2 + results'[Len(results')].length
            ELSE scan_i' = scan_i + 1 /\ results' = results]_vars
    /\ <>(pc = "done")

\* two strings found, the second one after a rejected position
C19_Witness ==
    /\ pc = "done"
    /\ Len(results) = 2
    /\ results[1].value = << 65, 0, 66 >>
    /\ results[2].offset > results[1].offset + 2 + results[1].length
    /\ results[2].value = << 65, 66, 67 >>

(***************************************************************************)
(* parse_instruments: the instrument name scan                             *)
(***************************************************************************)
\* (name_pattern, default_strings), in the order they are searched
instrument_patterns ==
    << << << 77, 97, 110, 100, 111, 108, 105, 110 >>, 4 >>,                    \* Mandolin
       << << 109, 97, 110, 100, 111, 108, 105, 110 >>, 4 >>,                   \* mandolin
       << << 66, 97, 110, 106, 111, 32, 111, 112, 101, 110, 32, 71 >>, 5 >>,   \* Banjo open G
       << << 98, 97, 110, 106, 111, 32, 111, 112, 101, 110, 32, 71 >>, 5 >>,   \* banjo open G
       << << 66, 97, 110, 106, 111 >>, 5 >>,                                   \* Banjo
       << << 98, 97, 110, 106, 111 >>, 5 >>,                                   \* banjo
       << << 71, 117, 105, 116, 97, 114, 32, 83, 116, 97, 110, 100, 97, 114, 100 >>, 6 >>,
       << << 103, 117, 105, 116, 97, 114, 32, 115, 116, 97, 110, 100, 97, 114, 100 >>, 6 >>,
       << << 71, 117, 105, 116, 97, 114 >>, 6 >>,                              \* Guitar
       << << 103, 117, 105, 116, 97, 114 >>, 6 >>,                             \* guitar
       << << 66, 97, 115, 115 >>, 4 >>,                                        \* Bass
       << << 98, 97, 115, 115 >>, 4 >>,                                        \* bass
       << << 85, 107, 117, 108, 101, 108, 101 >>, 4 >>,                        \* Ukulele
       << << 117, 107, 117, 108, 101, 108, 101 >>, 4 >> >>                     \* ukulele

MinNameDistance == 50
MaxTuningName == 20

TEFInstrument(name, tuning_name, num_strings, tuning_pitches, name_offset) ==
    [ name |-> name, tuning_name |-> tuning_name, num_strings |-> num_strings,
      tuning_pitches |-> tuning_pitches, offset |-> name_offset ]

\* found_offsets: one offset is added with every instrument appended
found_offsets(list) == { list[k].offset : k \in 1..Len(list) }

Abs(x) == IF x < 0 THEN -x ELSE x

\* (mutation) only a name at the very same offset is a duplicate
TooCloseSameOffset(idx, offsets) == \E off \in offsets : Abs(idx - off) < 1

\* any(abs(idx - off) < 50 for off in found_offsets)
TooClose(idx, offsets) == \E off \in offsets : Abs(idx - off) < MinNameDistance

\* `if name_end >= len(self.data) or self.data[name_end] != 0`
NameNotTerminated(d, len, name_end) == name_end >= len \/ ByteAt(d, name_end) # 0

\* tuning_name_end after the while loop of lines 493-496
TuningNameEnd(d, len, tuning_name_start) ==
    LET limit == IF len < tuning_name_start + MaxTuningName THEN len
                 ELSE tuning_name_start + MaxTuningName
        nuls == { e \in tuning_name_start..(limit - 1) : ByteAt(d, e) = 0 }
    IN  IF nuls # { } THEN SetMin(nuls)
        ELSE IF limit < tuning_name_start THEN tuning_name_start
        ELSE limit

\* decode('ascii') raises UnicodeDecodeError, or the name is too long or has
\* more than 2 spaces
TuningNameRejected(tuning_name_bytes) ==
    \/ \E k \in 1..Len(tuning_name_bytes) : tuning_name_bytes[k] >= 128
    \/ Len(tuning_name_bytes) > MaxTuningName
    \/ Cardinality({ k \in 1..Len(tuning_name_bytes) : tuning_name_bytes[k] = 32 }) > 2

\* `while pos > 0 and self.data[pos] == 0: pos -= 1`, and the same loop for
\* the bytes equal to uniform_val: the position the loop stops at
SkipBack(d, pos, val) ==
    IF pos <= 0 THEN pos
    ELSE LET others == { p \in 1..pos : ByteAt(d, p) # val }
         IN  IF others = { } THEN 0 ELSE SetMax(others)

\* pos after the velocity bytes were skipped (lines 530-540)
SkipVelocity(d, pos) ==
    IF pos >= 3 /\ 0 < ByteAt(d, pos) /\ ByteAt(d, pos) < 128
    THEN LET uniform_count == pos - SkipBack(d, pos, ByteAt(d, pos))
         IN  IF uniform_count >= 4 THEN pos - uniform_count ELSE pos
    ELSE pos

\* null_pos: the first 0x00 met by `for check in range(pos, max(pos - 3, 0), -1)`
NullPos(d, pos) ==
    LET low == IF pos - 3 > 0 THEN pos - 3 ELSE 0
        nuls == { check \in (low + 1)..pos : ByteAt(d, check) = 0 }
    IN  IF nuls = { } THEN -1 ELSE SetMax(nuls)

\* (mutation) the tuning byte returned as the pitch
TuningPitchIsByte(b) == b

\* line 570: 96 - b
TuningPitch(b) == 96 - b

\* tuning_pitches of the name at idx (lines 523-570)
TuningPitches(d, idx, num_strings) ==
    LET pos == SkipVelocity(d, SkipBack(d, idx - 1, 0))
        null_pos == NullPos(d, pos)
        tuning_end == IF null_pos >= 0 THEN null_pos ELSE pos + 1
        tuning_start == tuning_end - num_strings
        tuning_bytes == Slice(d, tuning_start, tuning_end)
    IN  IF tuning_start >= 0 /\ \A k \in 1..Len(tuning_bytes) :
                                    16 <= tuning_bytes[k] /\ tuning_bytes[k] <= 96
        THEN [ k \in 1..Len(tuning_bytes) |-> TuningPitch(tuning_bytes[k]) ]
        ELSE << >>

\* (mutation) the list returned in the order the names were found
KeepOrder(list) == list

\* instruments.sort(key=lambda x: x.offset): a stable sort
SortByOffset(list) ==
    LET n == Len(list)
        rank(k) == 1 + Cardinality({ j \in 1..n :
                        \/ list[j].offset < list[k].offset
                        \/ (list[j].offset = list[k].offset /\ j < k) })
    IN  [ r \in 1..n |-> list[CHOOSE k \in 1..n : rank(k) = r] ]

\* lines 444-468: instruments = [], the pattern table, found_offsets = set();
\* `iter` is the index of the pattern searched, `scan_i` the local idx
PIStart ==
    /\ pc = "parse_instruments"
    /\ results' = << >>
    /\ iter' = 1
    /\ scan_i' = 0
    /\ pc' = "pi_find"
    /\ outcome' = Running
    /\ UNCHANGED << hdrVars, data_len, instruments, offset, consecutive_invalid,
                    m_data, m_index, record, locals, emitted, events_len, last_event,
                    track_last, prev_on_track >>

\* lines 471-580: one iteration of `while True` for the current pattern; when
\* the last pattern has no further occurrence, lines 582-585: sort and return
PIFind ==
    /\ pc = "pi_find"
    /\ LET name_pattern == instrument_patterns[iter][1]
           default_strings == instrument_patterns[iter][2]
           idx == Find(data, data_len, name_pattern, scan_i)
           name_end == idx + Len(name_pattern)
           tuning_name_start == name_end + 1
           tuning_name_bytes ==
               Slice(data, tuning_name_start,
                     TuningNameEnd(data, data_len, tuning_name_start))
       IN  IF idx < 0
           THEN IF iter < Len(instrument_patterns)
                THEN /\ iter' = iter + 1
                     /\ scan_i' = 0
                     /\ pc' = "pi_find"
                     /\ UNCHANGED results
                ELSE /\ results' = SortByOffset(results)
                     /\ pc' = "done"
                     /\ UNCHANGED << iter, scan_i >>
           ELSE /\ scan_i' = idx + 1
                /\ pc' = "pi_find"
                /\ UNCHANGED iter
                /\ IF \/ TooClose(idx, found_offsets(results))
                      \/ NameNotTerminated(data, data_len, name_end)
                      \/ TuningNameRejected(tuning_name_bytes)
                   THEN UNCHANGED results
                   ELSE results' =
                          Append(results,
                                 TEFInstrument(name_pattern, tuning_name_bytes,
                                               default_strings,
                                               TuningPitches(data, idx, default_strings),
                                               idx))
    /\ outcome' = EndOf(pc')
    /\ UNCHANGED << hdrVars, data_len, instruments, offset, consecutive_invalid,
                    m_data, m_index, record, locals, emitted, events_len, last_event,
                    track_last, prev_on_track >>

\* ---- inputs of the instrument scan
MaxPieces == 3   \* pieces a file with instruments is built from

\* tuning bytes, six velocity bytes, a NUL, the name, its tuning name
InstrumentBlock(tuning, name, tuning_name) ==
    tuning \o Fill(80, 6) \o << 0 >> \o name \o << 0 >> \o tuning_name \o << 0 >>

InstrumentPieces ==
    { \* Mandolin, tuning name "GDAE", the outer strings at the two ends of
      \* the accepted byte range
      InstrumentBlock(<< 16, 46, 53, 96 >>, instrument_patterns[1][1], << 71, 68, 65, 69 >>),
      \* Banjo open G, tuning name "gDGBD"
      InstrumentBlock(<< 29, 34, 41, 37, 34 >>, instrument_patterns[3][1],
                      << 103, 68, 71, 66, 68 >>),
      \* "Guitars": the name is not followed by 0x00
      instrument_patterns[9][1] \o << 115, 0 >>,
      \* "Bass" with the tuning name "a b c d"
      instrument_patterns[11][1] \o << 0, 97, 32, 98, 32, 99, 32, 100, 0 >>,
      \* "banjo" with the tuning name "G\xe9"
      instrument_patterns[6][1] \o << 0, 71, 233, 0 >>,
      \* 50 bytes of padding
      Fill(0, MinNameDistance),
      \* "Guitar" without a tuning name, after bytes that are no tuning
      << 200, 5, 7 >> \o instrument_patterns[9][1] \o << 0, 0 >>,
      \* "Ukulele" and nothing after it
      instrument_patterns[13][1] }

InstrumentFiles == { Concat(pieces) : pieces \in SeqsUpTo(InstrumentPieces, MaxPieces) }

InitInstruments ==
    /\ pc = "parse_instruments"
    /\ \E bytes \in InstrumentFiles :
          /\ data = Place(0, bytes)
          /\ data_len = Len(bytes)
    /\ header = NoHeader
    /\ instruments = << >>
    /\ LoopInit

NextInstruments == PIStart \/ PIFind

SpecInstruments == InitInstruments /\ [][NextInstruments]_vars

\* C20: parse_instruments returns the instruments sorted by strictly
\* ascending file offset; no two of them have name offsets less than 50
\* bytes apart, whatever the order in which the names were found; the name of
\* every returned instrument is immediately followed in the file by 0x00.
C20_InstrumentsSortedAndApart ==
    /\ \A j, k \in 1..Len(results) :
          j # k => \/ results[j].offset - results[k].offset >= 50
                   \/ results[k].offset - results[j].offset >= 50
    /\ \A k \in 1..Len(results) :
          LET o == results[k].offset
              n == Len(results[k].name)
          IN  /\ o >= 0 /\ o + n < data_len
              /\ \A c \in 1..n : data[o + c - 1] = results[k].name[c]
              /\ data[o + n] = 0
    /\ pc = "done" =>
          \A k \in 2..Len(results) : results[k - 1].offset < results[k].offset

\* Mandolin was found before the Guitar that precedes it in the file, and the
\* list returned starts with the Guitar
C20_Witness ==
    /\ pc = "done"
    /\ Len(results) = 2
    /\ results[1].name = instrument_patterns[9][1]
    /\ results[2].name = instrument_patterns[1][1]
    /\ results[1].offset + 50 <= results[2].offset

\* ---------------------------------------------------------------------
\* Tunings of the instruments returned by parse_instruments
\* ---------------------------------------------------------------------

\* C21: every instrument returned by parse_instruments has as many tuning
\* pitches as strings; a name whose backward scan finds no num_strings tuning
\* bytes in 0x10..0x60 is not returned.
C21_TuningLengthIsNumStrings ==
    \A k \in 1..Len(results) :
        Len(results[k].tuning_pitches) = results[k].num_strings

\* the bytes of the file that hold the tuning of the k-th instrument: the
\* num_strings bytes at s, before the name
C22_TuningAt(k, s) ==
    \A j \in 1..results[k].num_strings :
        LET b == ByteAt(data, s + j - 1)
        IN  /\ 16 <= b /\ b <= 96
            /\ results[k].tuning_pitches[j] = 96 - b

\* every instrument with a tuning has one pitch per string, read from
\* num_strings consecutive bytes before its name
C22_TuningFromBytes(k) ==
    results[k].tuning_pitches # << >> =>
        /\ Len(results[k].tuning_pitches) = results[k].num_strings
        /\ \E s \in 0..(results[k].offset - results[k].num_strings) : C22_TuningAt(k, s)

C23_NoInstrumentDefaults ==
    (IsV3Record /\ emitted /\ instruments = << >>) =>
        /\ last_event.track = 0
        /\ last_event.position = C3_Location \div 160
        /\ locals.cumulative_string = (C3_Location % 160) \div 8
        /\ locals.cumulative_string < 20

\* a note on a cumulative string beyond the five assumed strings
C23_Witness ==
    /\ IsV3Record
    /\ emitted
    /\ instruments = << >>
    /\ C3_Location > 160
    /\ locals.cumulative_string >= 5
    /\ last_event.track = 0

\* ---------------------------------------------------------------------
\* Order of the note events of both decoders
\* ---------------------------------------------------------------------

\* both component decoders, each on its own streams
InitStreams == InitV3 \/ InitV2

NextStreams == NextV3 \/ NextV2

SpecStreams == InitStreams /\ [][NextStreams]_vars

\* size of the records of the decoder that is running
C24_RecordSize == IF pc = "v3_loop" THEN 12 ELSE 6

\* one loop iteration appends at most the event of the record it read
C24_Step ==
    pc \in { "v3_loop", "v2_loop" } =>
        /\ offset' = offset + C24_RecordSize
        /\ Len(record') = C24_RecordSize
        /\ IF emitted'
           THEN /\ events_len' = events_len + 1
                /\ last_event'.raw_data = record'
                /\ Len(last_event'.raw_data) = C24_RecordSize
           ELSE /\ events_len' = events_len
                /\ last_event' = last_event

\* C24: note events are returned in file order.  Every loop iteration of either
\* decoder reads the record one record size after the previous one; the event
\* list only grows, by appending the event of the record just read, and that
\* event holds exactly the bytes of its record: 12 in v3, 6 in v2.
C24_FileOrder == [][C24_Step]_vars

\* the second note of a v2 file, read from its third record
C24_Witness ==
    /\ IsV2Record
    /\ emitted
    /\ iter = 3
    /\ events_len = 2
    /\ offset = header.v2_component_offset + 18
    /\ last_event.raw_data = record
    /\ last_event.position < 16
    /\ locals.position_in_measure = 0

\* ---------------------------------------------------------------------
\* TEFNoteEvent.is_melody, decode_string_fret, get_pitch
\* ---------------------------------------------------------------------

\* Python's None as a returned value; a returned value v is << v >>
None == << >>

\* lines 152-165: extra is the local string, pitch_byte the fret
is_melody(ev) ==
    1 <= ev.extra /\ ev.extra <= 15 /\ 0 <= ev.pitch_byte /\ ev.pitch_byte <= 24

\* (mutation) string 0 decoded
DecodeStringFretFrom0(ev) ==
    IF ~ (0 <= ev.extra /\ ev.extra <= 15) \/ ~ (0 <= ev.pitch_byte /\ ev.pitch_byte <= 24)
    THEN None
    ELSE << << ev.extra, ev.pitch_byte >> >>

\* lines 167-181
decode_string_fret(ev) ==
    IF ~ (1 <= ev.extra /\ ev.extra <= 15) \/ ~ (0 <= ev.pitch_byte /\ ev.pitch_byte <= 24)
    THEN None
    ELSE << << ev.extra, ev.pitch_byte >> >>

\* the tuning used when the argument is None: open G banjo
DefaultTuning == << 62, 59, 55, 50, 67 >>

\* lines 183-201; tuning_arg is None or << the list >>
get_pitch(ev, tuning_arg) ==
    LET tuning == IF tuning_arg = None THEN DefaultTuning ELSE tuning_arg[1]
        result == decode_string_fret(ev)
    IN  IF result = None THEN None
        ELSE LET string == result[1][1]
                 fret == result[1][2]
             IN  IF string < 1 \/ string > Len(tuning) THEN None
                 ELSE << tuning[string] + fret >>

\* the three methods called on one event
IsMelodyCall ==
    /\ pc = "note_event"
    /\ locals' = [ method |-> "is_melody", tuning |-> None ]
    /\ results' = << is_melody(last_event) >>
    /\ pc' = "done"
    /\ outcome' = Returned
    /\ UNCHANGED << hdrVars, data_len, instruments, offset, consecutive_invalid, m_data,
                    m_index, iter, record, emitted, events_len, last_event, track_last,
                    prev_on_track, scan_i >>

DecodeStringFretCall ==
    /\ pc = "note_event"
    /\ locals' = [ method |-> "decode_string_fret", tuning |-> None ]
    /\ results' = decode_string_fret(last_event)
    /\ pc' = "done"
    /\ outcome' = Returned
    /\ UNCHANGED << hdrVars, data_len, instruments, offset, consecutive_invalid, m_data,
                    m_index, iter, record, emitted, events_len, last_event, track_last,
                    prev_on_track, scan_i >>

GetPitchCall(tuning_arg) ==
    /\ pc = "note_event"
    /\ locals' = [ method |-> "get_pitch", tuning |-> tuning_arg ]
    /\ results' = get_pitch(last_event, tuning_arg)
    /\ pc' = "done"
    /\ outcome' = Returned
    /\ UNCHANGED << hdrVars, data_len, instruments, offset, consecutive_invalid, m_data,
                    m_index, iter, record, emitted, events_len, last_event, track_last,
                    prev_on_track, scan_i >>

\* strings and frets around the ends of 1..15 and 0..24
EventStrings == { -1, 0, 1, 4, 5, 6, 15, 16, 255 }
EventFrets == { -1, 0, 12, 24, 25, 255 }

\* no tuning, an empty one, one string, mandolin, open G banjo, 15 strings
TuningArgs ==
    { None, << << >> >>, << << 64 >> >>, << << 76, 69, 62, 55 >> >>,
      << << 62, 59, 55, 50, 67 >> >>, << [ k \in 1..15 |-> 40 + k ] >> }

InitMelody ==
    /\ pc = "note_event"
    /\ data = ZeroData
    /\ header = NoHeader
    /\ data_len = 0
    /\ instruments = << >>
    /\ offset = 0 /\ consecutive_invalid = 0 /\ m_data = 0 /\ m_index = 0 /\ iter = 0
    /\ record = NoRecord /\ locals = NoLocals /\ emitted = TRUE /\ events_len = 1
    /\ \E string \in EventStrings, fret \in EventFrets :
          last_event = TEFNoteEvent(0, 0, "F", string, fret, << >>)
    /\ track_last = << >> /\ prev_on_track = NoPair
    /\ scan_i = 0 /\ results = << >> /\ outcome = Running

NextMelody ==
    \/ IsMelodyCall
    \/ DecodeStringFretCall
    \/ \E tuning_arg \in TuningArgs : GetPitchCall(tuning_arg)

SpecMelody == InitMelody /\ [][NextMelody]_vars

\* the melody test of the claim on the event
C25_Melody ==
    /\ 1 <= last_event.extra /\ last_event.extra <= 15
    /\ 0 <= last_event.pitch_byte /\ last_event.pitch_byte <= 24

\* the tuning get_pitch works with
C25_Tuning == IF locals.tuning = << >> THEN << 62, 59, 55, 50, 67 >> ELSE locals.tuning[1]

\* C25: an event is melody iff 1 <= local string <= 15 and 0 <= fret <= 24;
\* decode_string_fret returns (string, fret) exactly for melody events and None
\* for all others; get_pitch returns None, without failing, for a non-melody
\* event and for a string beyond the length of the tuning, and the pitch of
\* the string plus the fret otherwise.
C25_MelodyFilter ==
    (pc = "done" /\ outcome = Returned) =>
        /\ locals.method = "is_melody" => results = << C25_Melody >>
        /\ locals.method = "decode_string_fret" =>
              results = IF C25_Melody
                        THEN << << last_event.extra, last_event.pitch_byte >> >>
                        ELSE << >>
        /\ locals.method = "get_pitch" =>
              results = IF C25_Melody /\ last_event.extra <= Len(C25_Tuning)
                        THEN << C25_Tuning[last_event.extra] + last_event.pitch_byte >>
                        ELSE << >>

\* get_pitch of a melody note on string 6 with a 5-string tuning
C25_Witness ==
    /\ pc = "done"
    /\ locals.method = "get_pitch"
    /\ C25_Melody
    /\ last_event.extra = 6
    /\ locals.tuning = << << 62, 59, 55, 50, 67 >> >>
    /\ results = None

\* ---------------------------------------------------------------------
\* The location of the v2 records and its carry
\* ---------------------------------------------------------------------

\* location of the record just read, with the carry m_data
C26_Location(carry) == record'[1] + 256 * (carry + record'[2])

\* m_data after the record just read: 256 more when the measure would fall
\* below m_index
C26_Carry ==
    IF C26_Location(m_data) \div (C9_TsSize * data[240]) < m_index
    THEN m_data + 256
    ELSE m_data

\* one record of the component loop, note or not
C26_Step ==
    pc = "v2_loop" =>
        /\ m_data' = C26_Carry
        /\ locals'.location = C26_Location(C26_Carry)
        /\ locals'.position_in_measure = C26_Location(C26_Carry) % C9_TsSize
        /\ locals'.cumulative_string = (C26_Location(C26_Carry) \div C9_TsSize) % data[240]
        /\ locals'.cumulative_string < data[240]
        /\ locals'.measure = C26_Location(C26_Carry) \div (C9_TsSize * data[240])
        /\ m_index' = locals'.measure
        /\ iter' = iter + 1
        /\ iter' <= U16LE(data[256], data[257])

\* C26: the v2 decoder starts with m_data = 0 and m_index = 0 and, for each of
\* the first component_count records, notes and non-notes alike, takes location
\* = r[0] + 256 * (m_data + r[1]); when location div (ts_size * N) < m_index it
\* adds 256 to m_data, once, and recomputes location; then position_in_measure =
\* location mod ts_size, cumulative string = (location div ts_size) mod N < N,
\* measure = location div (ts_size * N), and m_index becomes the measure.
C26_LocationWithCarry ==
    /\ [][C26_Step]_vars
    /\ []((pc = "v2_loop" /\ iter = 0) => (m_data = 0 /\ m_index = 0))

\* a record that is no note carried the overflow
C26_Witness ==
    /\ IsV2Record
    /\ ~ emitted
    /\ m_data = 256
    /\ locals.location >= 65536
    /\ locals.measure > 0
    /\ m_index = locals.measure

\* ---- the carry over wider streams: every second byte that matters for the
\* overflow, short and long measures
CarryRecords ==
    { Rec6(r0, r1, r2, 0) :
        r0 \in { 0, 255 }, r1 \in { 0, 1, 128, 255 }, r2 \in { 1, 0 } }

\* ts_size * N = 256, 1280, 1728, 4, 65280 (twice), 16646400
CarryConfigs ==
    { << 4, 4, 1, << >> >>, << 4, 4, 5, << 5 >> >>, << 3, 4, 9, << 5, 4 >> >>,
      << 1, 255, 4, << 4 >> >>, << 4, 4, 255, << >> >>, << 255, 1, 1, << >> >>,
      << 255, 1, 255, << 6 >> >> }

InitV2Carry ==
    /\ pc = "parse_note_events_v2"
    /\ \E cfg \in CarryConfigs, count \in { 1, MaxV2Count } :
          /\ data = HeaderData(84, 0, 0, 0, cfg[1], cfg[2], cfg[3], Len(cfg[4]), count)
          /\ header = V2Header(cfg, count)
          /\ instruments = cfg[4]
    /\ data_len = 258 + 6 * MaxV2Count
    /\ LoopInit

NextV2Carry ==
    \/ V2Start
    \/ V2Loop(CarryRecords)

SpecV2Carry == InitV2Carry /\ [][NextV2Carry]_vars

\* one record: the measure does not go back, m_data stays or grows by 256
C27_Step ==
    pc = "v2_loop" =>
        /\ m_index' >= m_index
        /\ locals'.measure = m_index'
        /\ m_data' >= m_data
        /\ m_data' - m_data \in { 0, 256 }

\* C27: over the records of the v2 loop the measure m_index never decreases,
\* for every record bytes and every ts_size * N > 0: one carry of 256 is
\* enough.  m_data is a multiple of 256, never decreases and grows by at most
\* 256 per record; both are 0 when the loop starts.
C27_MeasureMonotone ==
    /\ [][C27_Step]_vars
    /\ [](pc \in { "v2_loop", "done" } => (m_data % 256 = 0 /\ m_data <= 256 * iter))
    /\ []((pc = "v2_loop" /\ iter = 0) => (m_data = 0 /\ m_index = 0))

\* two carries in a row, the measure growing each time
C27_Witness ==
    /\ pc = "done"
    /\ iter = 3
    /\ m_data = 512
    /\ record[2] = 0
    /\ m_index > 256

\* ---------------------------------------------------------------------
\* The guard of the v2 decoder on ts_size and the number of strings
\* ---------------------------------------------------------------------

\* header bytes 202 (time_num), 204 (time_denom), 240 (total strings)
GuardTimeNums == { 0, 1, 3, 4, 255 }
GuardTimeDenoms == { 0, 1, 2, 4, 255 }
GuardStrings == { 0, 1, 5, 255 }

InitV2Guard ==
    /\ pc = "parse_note_events_v2"
    /\ \E time_num \in GuardTimeNums, time_denom \in GuardTimeDenoms,
          strings \in GuardStrings :
          /\ data = HeaderData(84, 0, 0, 0, time_num, time_denom, strings, 0, 1)
          /\ header = read_v2_header(data)
    /\ instruments = << >>
    /\ data_len = 258 + 6
    /\ LoopInit

NextV2Guard ==
    \/ V2Start
    \/ V2Loop(StreamRecordsV2)

SpecV2Guard == InitV2Guard /\ [][NextV2Guard]_vars

\* ts_size as the claim gives it from the header bytes
C28_TsSize == IF data[204] > 0 THEN (256 * data[202]) \div data[204] ELSE 256

\* C28: the v2 decoder never divides by zero.  For all header bytes time_num,
\* time_denom and total_strings, ts_size is (256 * time_num) div time_denom, or
\* 256 when time_denom = 0; with ts_size = 0 or total_strings = 0 the decoder
\* returns an empty list without reading a record, and a record is decoded only
\* with ts_size > 0 and total_strings > 0.
C28_NoDivisionByZero ==
    /\ (C28_TsSize = 0 \/ data[240] = 0) =>
          /\ pc \in { "parse_note_events_v2", "done" }
          /\ record = NoRecord
          /\ events_len = 0
          /\ pc = "done" => outcome = Returned
    /\ IsV2Record =>
          /\ C28_TsSize > 0
          /\ data[240] > 0
          /\ locals.position_in_measure = locals.location % C28_TsSize
          /\ locals.measure = locals.location \div (C28_TsSize * data[240])
          /\ locals.cumulative_string = (locals.location \div C28_TsSize) % data[240]

\* time_num = 0 with a record in the file: ts_size 0, nothing read
C28_Witness ==
    /\ pc = "done"
    /\ data[202] = 0 /\ data[204] = 4 /\ data[240] = 5
    /\ header.v2_component_count = 1
    /\ header.v2_component_offset + 6 <= data_len
    /\ record = NoRecord
    /\ events_len = 0

\* ---------------------------------------------------------------------
\* The invalid-record counter of the v3 decoder and the non-note records
\* ---------------------------------------------------------------------

\* the record just read is a note by its component type
C29_IsNote(ct) == ct \notin C2_NonNoteSet /\ 1 <= ct % 32 /\ ct % 32 <= 25

\* one record: a known non-note leaves the counter alone, a note resets it,
\* any other record counts
C29_Step ==
    pc = "v3_loop" =>
        LET ct == record'[5]
        IN  /\ ct \in C2_NonNoteSet => consecutive_invalid' = consecutive_invalid
            /\ C29_IsNote(ct) => consecutive_invalid' = 0
            /\ (ct \notin C2_NonNoteSet /\ ~ C29_IsNote(ct)) =>
                  consecutive_invalid' = consecutive_invalid + 1
            /\ consecutive_invalid' < consecutive_invalid => emitted'

\* C29: in the v3 decoder a record of a known non-note type neither increments
\* nor resets the invalid-record counter and only a note resets it, so 20
\* invalid records with only non-note records between them stop the decoder;
\* the counter is always within 0..20.
C29_NonNoteKeepsCounter ==
    /\ [][C29_Step]_vars
    /\ [](consecutive_invalid \in 0..20)
    /\ [](consecutive_invalid = 20 => pc = "done")
    /\ [][consecutive_invalid = 20 => UNCHANGED << events_len, offset, pc >>]_vars

\* a non-note record read after 19 invalid records and no note: the count
\* stays at 19
C29_Witness ==
    /\ pc = "v3_loop"
    /\ IsV3Record
    /\ record[5] = 51
    /\ ~ emitted
    /\ events_len = 0
    /\ consecutive_invalid = 19

\* ---------------------------------------------------------------------
\* parse of a binary header whose major version is 2
\* ---------------------------------------------------------------------

\* _parse_v2: the fields of the TEFFile that do not come from the decoders
V2File(h) ==
    [ header |-> h, title |-> h.v2_title, strings |-> << >>, chords |-> << >>,
      sections |-> << >>, reading_list |-> << >> ]

\* the file starts with a byte outside 0x20..0x7E and has byte 3 = 2
C30_BinaryMajor2 ==
    /\ ~ (32 <= ByteAt(data, 0) /\ ByteAt(data, 0) <= 126)
    /\ ByteAt(data, 3) = 2

\* C30: parse chooses the decoder by the header's version_major, not by the
\* class of the first byte.  A file with a binary first byte and byte 3 = 2 goes
\* the v2 way with the default v2 header fields (component_count = 0): no note
\* event, an empty title, an empty reading list; neither its 12-byte records nor
\* its "debt" pointer are looked at.
C30_DialectByVersionMajor ==
    (pc # "parse" /\ C30_BinaryMajor2) =>
        /\ header.version_major = 2
        /\ header.format_id = ByteAt(data, 0) + 256 * ByteAt(data, 1)
        /\ header.v2_component_count = 0
        /\ pc \in { "parse_note_events_v2", "done" }
        /\ outcome.kind # "raised"
        /\ pc = "done" => outcome = Returned
        /\ record = NoRecord
        /\ events_len = 0
        /\ offset = 0
        /\ V2File(header).title = << >>
        /\ V2File(header).reading_list = << >>

\* such a file with a valid "debt" pointer to a record inside the file
C30_Witness ==
    /\ pc = "done"
    /\ ByteAt(data, 0) = 16
    /\ C30_BinaryMajor2
    /\ C14_DebtPos = 56
    /\ C14_Pointer = 112
    /\ C14_Pointer + 12 <= data_len
    /\ events_len = 0

====
